---- MODULE Spec2Model ----
(***************************************************************************)
(* LiteReviewer: the text-processing core of the review pipeline.          *)
(*                                                                         *)
(* Texts are sequences of one-character strings, a line is such a          *)
(* sequence without "\n", and an optional value (Python's None or a value) *)
(* is the empty sequence or a one-element sequence.                        *)
(***************************************************************************)
EXTENDS Integers, Sequences, FiniteSets, TLC

VARIABLES
    pc,             \* position of the running script
    \* parse_diff_hunk (diff_extractor.py and collect_data.py)
    diff_text,      \* the text handed to the parser
    hunk_de,        \* diff_extractor.parse_diff_hunk's result
    hunk_cd,        \* collect_data.parse_diff_hunk's result
    \* build_unified_position_table (diff_extractor.py)
    patch,          \* one file's patch text
    chunks,         \* split_hunks(patch)
    chunk_i,        \* number of chunks the loop has been through
    pos,            \* the running position counter
    pos_table,      \* new line number -> position
    hunks_parsed,   \* extract_pr_diffs' parsed hunks of the patch, or None
    \* absolute_new_line (review_generator.py)
    hunk,           \* the parsed hunk
    approx_line,    \* the model's line reference
    abs_new,        \* the function's result
    \* extract_block_definition (collect_data.py)
    old_lines,      \* the file at the base commit, as lines
    anchor_line,    \* the anchor the caller supplies
    block,          \* the function's result
    \* scrape_examples_from_single_pr (collect_data.py)
    review_comments,\* the pull request's review comments, in order
    pr_author,      \* login of the pull request's author, or None
    max_needed,     \* the cap on examples the caller passes
    filtered,       \* indices of the comments the filters keep
    singletons,     \* the (path, header) keys held by one kept comment
    emit_i,         \* number of kept comments the emit loop has been through
    out,            \* the examples emitted so far
    old_file_lines, \* the base-commit file fetched for the last example, or None
    \* main (review_generator.py)
    hunks,          \* the hunks of the input records, in loop order
    args_max,       \* --max, the cap on hunks to process (0: none)
    h_idx,          \* number of hunks the loop has been through
    processed,      \* hunks processed
    written,        \* rows written
    fout,           \* the rows of the output file
    escaped,        \* the exception that left main, or None
    \* parse_model_json_strict (review_generator.py)
    raw_text,       \* the text handed to the recovery
    recovered,      \* its result
    \* format_comments (comment_formatter.py) and main (post_comments_github.py)
    review_rows,    \* the lines of the generated reviews file, loaded
    formatted,      \* format_comments' result
    comments_payload, \* the comments of the review main posts
    \* extract_window_snippet (collect_data.py)
    span_start,     \* the old span's first line
    span_end,       \* the old span's last line
    win_radius,     \* the radius the caller passes
    snippet,        \* the function's result
    \* main and collect_examples_from_repo_time_order (collect_data.py)
    repos_meta,     \* the repositories of the list, each one its pull requests' yields
    max_examples_per_repo, \* the cap on examples of one repository
    max_prs_to_scan, \* the cap on pull requests scanned
    probe_prs,      \* the number of pull requests probed
    probe_min,      \* the examples the probe must find
    repo_i,         \* number of repositories main has been through
    pr_idx,         \* the index of the pull request enumerated
    collected,      \* the examples of the repository so far
    scan_log,       \* the indices of the pull requests scanned, in order
    repo_examples,  \* the list the repository loop returned, or None
    cd_fout         \* the records of the collector's output file

parseVars == <<diff_text, hunk_de, hunk_cd>>
posVars == <<patch, chunks, chunk_i, pos, pos_table, hunks_parsed>>
locVars == <<hunk, approx_line, abs_new>>
blockVars == <<old_lines, anchor_line, block>>
scrapeVars ==
    <<review_comments, pr_author, max_needed, filtered, singletons, emit_i, out,
      old_file_lines>>
genVars == <<hunks, args_max, h_idx, processed, written, fout, escaped, raw_text, recovered>>
downVars == <<review_rows, formatted, comments_payload>>
winVars == <<span_start, span_end, win_radius, snippet>>
collectVars ==
    <<repos_meta, max_examples_per_repo, max_prs_to_scan, probe_prs, probe_min,
      repo_i, pr_idx, collected, scan_log, repo_examples, cd_fout>>
vars ==
    <<pc, parseVars, posVars, locVars, blockVars, scrapeVars, genVars, downVars,
      winVars, collectVars>>

\* the value of a variable of a script that is not running
Idle == <<"idle">>

IdleParse == diff_text = Idle /\ hunk_de = Idle /\ hunk_cd = Idle
IdlePos ==
    /\ patch = Idle /\ chunks = Idle /\ chunk_i = Idle /\ pos = Idle /\ pos_table = Idle
    /\ hunks_parsed = Idle
IdleLoc == hunk = Idle /\ approx_line = Idle /\ abs_new = Idle
IdleBlock == old_lines = Idle /\ anchor_line = Idle /\ block = Idle
IdleScrape ==
    /\ review_comments = Idle /\ pr_author = Idle /\ max_needed = Idle /\ filtered = Idle
    /\ singletons = Idle /\ emit_i = Idle /\ out = Idle /\ old_file_lines = Idle
IdleDown == review_rows = Idle /\ formatted = Idle /\ comments_payload = Idle
IdleWin == span_start = Idle /\ span_end = Idle /\ win_radius = Idle /\ snippet = Idle
IdleCollect ==
    /\ repos_meta = Idle /\ max_examples_per_repo = Idle /\ max_prs_to_scan = Idle
    /\ probe_prs = Idle /\ probe_min = Idle /\ repo_i = Idle
    /\ pr_idx = Idle /\ collected = Idle /\ scan_log = Idle
    /\ repo_examples = Idle /\ cd_fout = Idle
IdleGen ==
    /\ hunks = Idle /\ args_max = Idle /\ h_idx = Idle /\ processed = Idle /\ written = Idle
    /\ fout = Idle /\ escaped = Idle /\ raw_text = Idle /\ recovered = Idle

----------------------------------------------------------------------------
(* Optional values *)
None == <<>>
Some(x) == <<x>>
Val(o) == o[1]

Min(S) == CHOOSE x \in S : \A y \in S : x <= y
Max(S) == CHOOSE x \in S : \A y \in S : x >= y

----------------------------------------------------------------------------
(* Python string operations over character sequences *)

IsWS(c) == c \in {" ", "\t", "\n"}

IsDigit(c) == c \in {"0", "1", "2", "3", "4", "5", "6", "7", "8", "9"}

DigitVal(c) ==
    CASE c = "0" -> 0 [] c = "1" -> 1 [] c = "2" -> 2 [] c = "3" -> 3
      [] c = "4" -> 4 [] c = "5" -> 5 [] c = "6" -> 6 [] c = "7" -> 7
      [] c = "8" -> 8 [] c = "9" -> 9

DigitChar(d) == <<"0", "1", "2", "3", "4", "5", "6", "7", "8", "9">>[d + 1]

RECURSIVE int(_)
int(s) == IF s = <<>> THEN 0
          ELSE 10 * int(SubSeq(s, 1, Len(s) - 1)) + DigitVal(s[Len(s)])

RECURSIVE str(_)
str(n) == IF n < 10 THEN <<DigitChar(n)>>
          ELSE str(n \div 10) \o <<DigitChar(n % 10)>>

startswith(s, p) == Len(s) >= Len(p) /\ SubSeq(s, 1, Len(p)) = p

endswith(s, p) == Len(s) >= Len(p) /\ SubSeq(s, Len(s) - Len(p) + 1, Len(s)) = p

RECURSIVE lstrip(_)
lstrip(s) == IF s # <<>> /\ IsWS(s[1]) THEN lstrip(Tail(s)) ELSE s

RECURSIVE rstrip(_)
rstrip(s) == IF s # <<>> /\ IsWS(s[Len(s)]) THEN rstrip(SubSeq(s, 1, Len(s) - 1)) ELSE s

strip(s) == rstrip(lstrip(s))

\* index of the first "\n" in s, 0 when there is none
RECURSIVE FindNL(_, _)
FindNL(s, i) == IF i > Len(s) THEN 0
                ELSE IF s[i] = "\n" THEN i ELSE FindNL(s, i + 1)

RECURSIVE splitlines(_)
splitlines(s) ==
    IF s = <<>> THEN <<>>
    ELSE LET i == FindNL(s, 1)
         IN IF i = 0 THEN <<s>>
            ELSE <<SubSeq(s, 1, i - 1)>> \o splitlines(SubSeq(s, i + 1, Len(s)))

\* "\n".join(ls), built by halves
RECURSIVE join(_)
join(ls) == IF ls = <<>> THEN <<>>
            ELSE IF Len(ls) = 1 THEN ls[1]
            ELSE join(SubSeq(ls, 1, Len(ls) \div 2)) \o <<"\n">>
                 \o join(SubSeq(ls, Len(ls) \div 2 + 1, Len(ls)))

----------------------------------------------------------------------------
(* The hunk header pattern  ^@@ -(\d+)(?:,(\d+))? \+(\d+)(?:,(\d+))? @@     *)

\* first index >= i of s that does not hold a digit
RECURSIVE DigitsEnd(_, _)
DigitsEnd(s, i) == IF i <= Len(s) /\ IsDigit(s[i]) THEN DigitsEnd(s, i + 1) ELSE i

LitAt(s, i, lit) == i + Len(lit) - 1 <= Len(s) /\ SubSeq(s, i, i + Len(lit) - 1) = lit

\* (\d+)(?:,(\d+))? at index i: None, or the two groups and the index after them
NumPair(s, i) ==
    LET e1 == DigitsEnd(s, i)
    IN IF e1 = i THEN None
       ELSE LET e2 == IF LitAt(s, e1, <<",">>) THEN DigitsEnd(s, e1 + 1) ELSE e1
            IN IF e2 > e1 + 1
               THEN Some([first |-> SubSeq(s, i, e1 - 1),
                          second |-> Some(SubSeq(s, e1 + 1, e2 - 1)),
                          next |-> e2])
               ELSE Some([first |-> SubSeq(s, i, e1 - 1), second |-> None, next |-> e1])

\* the rest of the pattern after both number pairs o and n
HunkReEnd(s, o, n) ==
    IF n = None \/ ~LitAt(s, Val(n).next, <<" ", "@", "@">>) THEN None
    ELSE Some([g1 |-> Val(o).first, g2 |-> Val(o).second,
               g3 |-> Val(n).first, g4 |-> Val(n).second])

\* the rest of the pattern after the old-side pair o
HunkReNew(s, o) ==
    IF o = None \/ ~LitAt(s, Val(o).next, <<" ", "+">>) THEN None
    ELSE HunkReEnd(s, o, NumPair(s, Val(o).next + 2))

HUNK_RE(s) ==
    IF ~LitAt(s, 1, <<"@", "@", " ", "-">>) THEN None
    ELSE HunkReNew(s, NumPair(s, 5))

HEADER_RE(s) == HUNK_RE(s)

\* a written length of 0 taken as omitted
GroupOr1_zero_as_omitted(g) ==
    IF g = None THEN int(<<"1">>)
    ELSE IF int(Val(g)) = 0 THEN int(<<"1">>) ELSE int(Val(g))

\* int(m.group(k) or "1")
GroupOr1(g) == IF g = None THEN int(<<"1">>) ELSE int(Val(g))

----------------------------------------------------------------------------
(* diff_extractor.parse_diff_hunk *)

\* the header search passing over marker lines that do not match the pattern
RECURSIVE de_header_idx_first_matching(_, _)
de_header_idx_first_matching(lines, i) ==
    IF i > Len(lines) THEN 0
    ELSE IF startswith(lines[i], <<"@", "@">>) /\ HUNK_RE(strip(lines[i])) # None THEN i
    ELSE de_header_idx_first_matching(lines, i + 1)

\* index of the first line that satisfies the script's header test, 0 if none
RECURSIVE de_header_idx(_, _)
de_header_idx(lines, i) ==
    IF i > Len(lines) THEN 0
    ELSE IF startswith(lines[i], <<"@", "@">>) THEN i ELSE de_header_idx(lines, i + 1)

\* de_body with the Context branch advancing only the old counter
RECURSIVE de_body_stuck_new(_, _, _)
de_body_stuck_new(raws, old_no, new_no) ==
    IF raws = <<>> THEN <<>>
    ELSE LET raw == raws[1]
             tag == IF raw = <<>> THEN " " ELSE raw[1]
             text == IF raw = <<>> THEN <<>>
                     ELSE IF tag \in {"+", "-", " "} THEN Tail(raw) ELSE raw
         IN IF tag = "+"
            THEN <<[tag |-> "+", text |-> text, old |-> None, new |-> Some(new_no)]>>
                 \o de_body_stuck_new(Tail(raws), old_no, new_no + 1)
            ELSE IF tag = "-"
            THEN <<[tag |-> "-", text |-> text, old |-> Some(old_no), new |-> None]>>
                 \o de_body_stuck_new(Tail(raws), old_no + 1, new_no)
            ELSE <<[tag |-> " ", text |-> text, old |-> Some(old_no), new |-> Some(new_no)]>>
                 \o de_body_stuck_new(Tail(raws), old_no + 1, new_no)

RECURSIVE de_body(_, _, _)
de_body(raws, old_no, new_no) ==
    IF raws = <<>> THEN <<>>
    ELSE LET raw == raws[1]
         IN IF raw = <<>>
            THEN <<[tag |-> " ", text |-> <<>>, old |-> Some(old_no), new |-> Some(new_no)]>>
                 \o de_body(Tail(raws), old_no + 1, new_no + 1)
            ELSE LET tag == raw[1]
                     text == IF tag \in {"+", "-", " "} THEN Tail(raw) ELSE raw
                 IN IF tag = "+"
                    THEN <<[tag |-> "+", text |-> text, old |-> None, new |-> Some(new_no)]>>
                         \o de_body(Tail(raws), old_no, new_no + 1)
                    ELSE IF tag = "-"
                    THEN <<[tag |-> "-", text |-> text, old |-> Some(old_no), new |-> None]>>
                         \o de_body(Tail(raws), old_no + 1, new_no)
                    ELSE <<[tag |-> " ", text |-> text, old |-> Some(old_no), new |-> Some(new_no)]>>
                         \o de_body(Tail(raws), old_no + 1, new_no + 1)

\* lines 66-111: the hunk for header line header_idx and its match m
de_hunk(lines, header_idx, m) ==
    IF m = None THEN None
    ELSE Some([header |-> lines[header_idx],
               old_start |-> int(Val(m).g1),
               old_len |-> GroupOr1(Val(m).g2),
               new_start |-> int(Val(m).g3),
               new_len |-> GroupOr1(Val(m).g4),
               lines |-> de_body(SubSeq(lines, header_idx + 1, Len(lines)),
                                 int(Val(m).g1), int(Val(m).g3))])

\* lines 60-68: the header line is matched stripped and stored as it is
de_parse_at(lines, header_idx) ==
    IF header_idx = 0 THEN None
    ELSE de_hunk(lines, header_idx, HUNK_RE(strip(lines[header_idx])))

de_parse_lines(lines) == de_parse_at(lines, de_header_idx(lines, 1))

parse_diff_hunk(text) ==
    IF text = <<>> THEN None ELSE de_parse_lines(splitlines(text))

----------------------------------------------------------------------------
(* collect_data.parse_diff_hunk *)

RECURSIVE cd_header_idx(_, _)
cd_header_idx(lines, i) ==
    IF i > Len(lines) THEN 0
    ELSE IF startswith(strip(lines[i]), <<"@", "@">>) THEN i ELSE cd_header_idx(lines, i + 1)

\* cd_body with a Removed line advancing the new counter as well
RECURSIVE cd_body_removed_counts_new(_, _, _)
cd_body_removed_counts_new(ls, old_line_no, new_line_no) ==
    IF ls = <<>> THEN <<>>
    ELSE LET l == ls[1]
         IN IF startswith(l, <<"+">>)
            THEN <<[tag |-> "+", text |-> Tail(l), old |-> None, new |-> Some(new_line_no)]>>
                 \o cd_body_removed_counts_new(Tail(ls), old_line_no, new_line_no + 1)
            ELSE IF startswith(l, <<"-">>)
            THEN <<[tag |-> "-", text |-> Tail(l), old |-> Some(old_line_no), new |-> None]>>
                 \o cd_body_removed_counts_new(Tail(ls), old_line_no + 1, new_line_no + 1)
            ELSE <<[tag |-> " ", text |-> IF startswith(l, <<" ">>) THEN Tail(l) ELSE l,
                    old |-> Some(old_line_no), new |-> Some(new_line_no)]>>
                 \o cd_body_removed_counts_new(Tail(ls), old_line_no + 1, new_line_no + 1)

RECURSIVE cd_body(_, _, _)
cd_body(ls, old_line_no, new_line_no) ==
    IF ls = <<>> THEN <<>>
    ELSE LET l == ls[1]
         IN IF startswith(l, <<"+">>)
            THEN <<[tag |-> "+", text |-> Tail(l), old |-> None, new |-> Some(new_line_no)]>>
                 \o cd_body(Tail(ls), old_line_no, new_line_no + 1)
            ELSE IF startswith(l, <<"-">>)
            THEN <<[tag |-> "-", text |-> Tail(l), old |-> Some(old_line_no), new |-> None]>>
                 \o cd_body(Tail(ls), old_line_no + 1, new_line_no)
            ELSE <<[tag |-> " ", text |-> IF startswith(l, <<" ">>) THEN Tail(l) ELSE l,
                    old |-> Some(old_line_no), new |-> Some(new_line_no)]>>
                 \o cd_body(Tail(ls), old_line_no + 1, new_line_no + 1)

\* lines 90-122: the hunk for the stripped header line and its match m
cd_hunk(lines, header_idx, m) ==
    IF m = None THEN None
    ELSE Some([header |-> strip(lines[header_idx]),
               old_start |-> int(Val(m).g1),
               old_len |-> GroupOr1(Val(m).g2),
               new_start |-> int(Val(m).g3),
               new_len |-> GroupOr1(Val(m).g4),
               lines |-> cd_body(SubSeq(lines, header_idx + 1, Len(lines)),
                                 int(Val(m).g1), int(Val(m).g3))])

\* lines 76-92: the header line is stripped, then matched and stored
cd_parse_at(lines, header_idx) ==
    IF lines = <<>> \/ header_idx = 0 THEN None
    ELSE cd_hunk(lines, header_idx, HEADER_RE(strip(lines[header_idx])))

cd_parse_lines(lines) == cd_parse_at(lines, cd_header_idx(lines, 1))

cd_parse_diff_hunk(text) ==
    IF text = <<>> THEN None ELSE cd_parse_lines(splitlines(text))

----------------------------------------------------------------------------
(* Inputs of the parser *)

MaxBodyLines == 3

\* "@@ -A[,B] +C[,D] @@" written out for optional B and D
Hdr(a, b, c, d) ==
    <<"@", "@", " ", "-">> \o str(a) \o (IF b = None THEN <<>> ELSE <<",">> \o str(Val(b)))
    \o <<" ", "+">> \o str(c) \o (IF d = None THEN <<>> ELSE <<",">> \o str(Val(d)))
    \o <<" ", "@", "@">>

HeaderLines ==
    { Hdr(5, Some(3), 5, Some(4)),
      Hdr(5, None, 5, Some(2)),
      Hdr(5, Some(2), 7, None),
      Hdr(12, None, 10, None),
      Hdr(0, Some(0), 1, Some(2)),
      Hdr(5, Some(1), 5, Some(1)) \o <<" ", "d", "e", "f">>,
      <<" ">> \o Hdr(5, Some(3), 5, Some(4)),
      <<"@", "@", " ", "b", "a", "d">> }

BodyLines ==
    { <<"+", "c">>, <<"-", "r">>, <<" ", "a">>, <<>>, <<"x">> }

SeqsUpTo(S, n) == UNION { [1..k -> S] : k \in 0..n }

\* header @@ -5,3 +5,4 @@ with body [" a"," b","+c","+d"," e"]
ExampleText ==
    join(<<Hdr(5, Some(3), 5, Some(4)), <<" ", "a">>, <<" ", "b">>, <<"+", "c">>,
           <<"+", "d">>, <<" ", "e">>>>)

DiffTexts ==
    { join(<<h>> \o b) : h \in HeaderLines, b \in SeqsUpTo(BodyLines, MaxBodyLines) }
    \cup { join(b) : b \in SeqsUpTo(BodyLines, 1) }
    \cup { ExampleText }

\* texts whose header is not the first line, or that hold two marker lines, or
\* only line ends
HeaderPlacements ==
    { join(<<a, h, <<"+", "c">>>>) : a \in BodyLines \cup HeaderLines, h \in HeaderLines }
    \cup { <<"\n">>, <<"\n", "\n">> }

----------------------------------------------------------------------------
(* The parser run on one text, by each of the two scripts *)

InitParse ==
    /\ pc = "parse"
    /\ diff_text \in DiffTexts \cup HeaderPlacements
    /\ hunk_de = <<"pending">>
    /\ hunk_cd = <<"pending">>
    /\ IdlePos /\ IdleLoc /\ IdleBlock /\ IdleScrape /\ IdleGen /\ IdleDown /\ IdleWin /\ IdleCollect

DE_ParseDiffHunk ==
    /\ pc = "parse"
    /\ hunk_de = <<"pending">>
    /\ hunk_de' = <<"returned", parse_diff_hunk(diff_text)>>
    /\ UNCHANGED <<pc, diff_text, hunk_cd, posVars, locVars, blockVars, scrapeVars, genVars, downVars,
                   winVars, collectVars>>

CD_ParseDiffHunk ==
    /\ pc = "parse"
    /\ hunk_cd = <<"pending">>
    /\ hunk_cd' = <<"returned", cd_parse_diff_hunk(diff_text)>>
    /\ UNCHANGED <<pc, diff_text, hunk_de, posVars, locVars, blockVars, scrapeVars, genVars, downVars,
                   winVars, collectVars>>

NextParse == DE_ParseDiffHunk \/ CD_ParseDiffHunk

SpecParse == InitParse /\ [][NextParse]_vars

----------------------------------------------------------------------------
(* Properties of the parser *)

Returned(r) == r[1] = "returned"
Parsed(r) == Returned(r) /\ r[2] # None
HunkOf(r) == Val(r[2])

Idx(h, tags) == { i \in 1..Len(h.lines) : h.lines[i].tag \in tags }
OldNos(h) == { Val(h.lines[i].old) : i \in Idx(h, {"-", " "}) }
NewNos(h) == { Val(h.lines[i].new) : i \in Idx(h, {"+", " "}) }

DeclaredSpan(nos, start, len) ==
    IF nos = {} THEN len = 0
    ELSE Min(nos) = start /\ Max(nos) = start + len - 1

CountedSpan(nos, start, count) ==
    /\ Cardinality(nos) = count
    /\ nos # {} => Min(nos) = start /\ Max(nos) = start + count - 1

\* C1 as stated: in every parsed hunk the least and greatest old numbers of the
\* Removed and Context lines are old_start and old_start+old_len-1, and the least
\* and greatest new numbers of the Added and Context lines are new_start and
\* new_start+new_len-1, whatever body follows the header.
C1_DeclaredSpans ==
    \A r \in {hunk_de, hunk_cd} :
        Parsed(r) =>
            /\ DeclaredSpan(OldNos(HunkOf(r)), HunkOf(r).old_start, HunkOf(r).old_len)
            /\ DeclaredSpan(NewNos(HunkOf(r)), HunkOf(r).new_start, HunkOf(r).new_len)

\* C1 amended: the old numbers of the Removed and Context lines run from old_start
\* to old_start + (number of Removed and Context lines) - 1 and the new numbers of
\* the Added and Context lines from new_start to new_start + (number of Added and
\* Context lines) - 1; they end at the declared old_start+old_len-1 and
\* new_start+new_len-1 exactly when the body holds old_len and new_len such lines.
C1_SpansFollowBody ==
    \A r \in {hunk_de, hunk_cd} :
        Parsed(r) =>
            LET h == HunkOf(r)
                nOld == Cardinality(Idx(h, {"-", " "}))
                nNew == Cardinality(Idx(h, {"+", " "}))
            IN /\ CountedSpan(OldNos(h), h.old_start, nOld)
               /\ CountedSpan(NewNos(h), h.new_start, nNew)
               /\ nOld > 0 => (Max(OldNos(h)) = h.old_start + h.old_len - 1 <=> nOld = h.old_len)
               /\ nNew > 0 => (Max(NewNos(h)) = h.new_start + h.new_len - 1 <=> nNew = h.new_len)

\* a parsed hunk whose body is shorter or longer than its header declares
C1_Witness ==
    /\ Parsed(hunk_de) /\ Parsed(hunk_cd)
    /\ OldNos(HunkOf(hunk_de)) # {} /\ NewNos(HunkOf(hunk_cd)) # {}
    /\ Cardinality(Idx(HunkOf(hunk_de), {"-", " "})) # HunkOf(hunk_de).old_len
    /\ Cardinality(Idx(HunkOf(hunk_cd), {"+", " "})) # HunkOf(hunk_cd).new_len

\* the physical lines after the header line, as each script finds the header
BodyOf(text, idx) == SubSeq(splitlines(text), idx + 1, Len(splitlines(text)))

FirstChar(raw) == IF raw = <<>> THEN "" ELSE raw[1]
TagOf(raw) == IF FirstChar(raw) \in {"+", "-"} THEN FirstChar(raw) ELSE " "

Numbered(h, body) ==
    /\ Len(h.lines) = Len(body)
    /\ \A i \in 1..Len(body) :
          LET tag == TagOf(body[i])
              before == 1..(i - 1)
              nonAdded == Cardinality({ j \in before : TagOf(body[j]) # "+" })
              nonRemoved == Cardinality({ j \in before : TagOf(body[j]) # "-" })
          IN /\ h.lines[i].tag = tag
             /\ h.lines[i].old = IF tag = "+" THEN None ELSE Some(h.old_start + nonAdded)
             /\ h.lines[i].new = IF tag = "-" THEN None ELSE Some(h.new_start + nonRemoved)

ExampleNumbers(h) ==
    /\ [i \in 1..5 |-> h.lines[i].new] = <<Some(5), Some(6), Some(7), Some(8), Some(9)>>
    /\ [i \in 1..5 |-> h.lines[i].old] = <<Some(5), Some(6), None, None, Some(7)>>
    /\ [i \in 1..5 |-> h.lines[i].tag] = <<" ", " ", "+", "+", " ">>

\* C2: the i-th body line is Added, Removed or Context by its first character
\* (an empty line is Context), its old number is old_start plus the number of
\* earlier lines that are not Added and its new number is new_start plus the
\* number of earlier lines that are not Removed; Added lines carry no old number
\* and Removed lines no new number; the example hunk gets new numbers 5..9 with
\* the Added lines at 7 and 8, and old numbers 5..7.
C2_CounterNumbering ==
    /\ Parsed(hunk_de) =>
          /\ Numbered(HunkOf(hunk_de), BodyOf(diff_text, de_header_idx(splitlines(diff_text), 1)))
          /\ diff_text = ExampleText => ExampleNumbers(HunkOf(hunk_de))
    /\ Parsed(hunk_cd) =>
          /\ Numbered(HunkOf(hunk_cd), BodyOf(diff_text, cd_header_idx(splitlines(diff_text), 1)))
          /\ diff_text = ExampleText => ExampleNumbers(HunkOf(hunk_cd))

\* both scripts have parsed the example hunk
C2_Witness ==
    /\ diff_text = ExampleText
    /\ Parsed(hunk_de) /\ Parsed(hunk_cd)
    /\ Len(HunkOf(hunk_de).lines) = 5 /\ Len(HunkOf(hunk_cd).lines) = 5

\* a parsed hunk with an empty physical line after an Added and a Removed line
C2_WitnessEmptyLine ==
    /\ Parsed(hunk_de) /\ Parsed(hunk_cd)
    /\ \E i \in 1..Len(HunkOf(hunk_de).lines) :
          /\ i > 2
          /\ BodyOf(diff_text, de_header_idx(splitlines(diff_text), 1))[i] = <<>>
          /\ HunkOf(hunk_de).lines[1].tag = "+"
          /\ HunkOf(hunk_de).lines[2].tag = "-"

\* the numbers the headers of the input texts are written with
HeaderNumbers == {0, 1, 2, 3, 4, 5, 7, 10, 12}

OptHeaderNumbers == { None } \cup { Some(n) : n \in HeaderNumbers }

IsPrefix(p, l) == Len(p) <= Len(l) /\ SubSeq(l, 1, Len(p)) = p

\* the headers @@ -A[,B] +C[,D] @@ over these numbers
GrammarHeaders ==
    { Hdr(a, b, c, d) : a \in HeaderNumbers, b \in OptHeaderNumbers,
                        c \in HeaderNumbers, d \in OptHeaderNumbers }

\* the line is of the form @@ -A[,B] +C[,D] @@ followed by anything
MatchesGrammar(l) == \E n \in 1..Len(l) : SubSeq(l, 1, n) \in GrammarHeaders

BeginsWithMarker(l) == IsPrefix(<<"@", "@">>, l)

\* the text is empty, has no line that begins with the marker, or its first
\* such line does not match the grammar
Unparseable(ls) ==
    \/ ls = <<>>
    \/ \A i \in 1..Len(ls) : ~BeginsWithMarker(ls[i])
    \/ \E i \in 1..Len(ls) :
          /\ BeginsWithMarker(ls[i])
          /\ \A j \in 1..(i - 1) : ~BeginsWithMarker(ls[j])
          /\ ~MatchesGrammar(ls[i])

Trimmed(ls) == [i \in 1..Len(ls) |-> strip(ls[i])]

C16_WitnessIndented ==
    /\ Returned(hunk_de) /\ Returned(hunk_cd)
    /\ \A i \in 1..Len(splitlines(diff_text)) : ~BeginsWithMarker(splitlines(diff_text)[i])
    /\ hunk_de[2] = None /\ hunk_cd[2] # None

\* a text of line ends only
C16_WitnessBlank ==
    /\ Returned(hunk_de) /\ Returned(hunk_cd)
    /\ diff_text = <<"\n">>
    /\ hunk_de[2] = None /\ hunk_cd[2] = None

\* a header after an unmarked line: both give a hunk
C16_WitnessLaterHeader ==
    /\ Returned(hunk_de) /\ Returned(hunk_cd)
    /\ Len(splitlines(diff_text)) = 3
    /\ ~BeginsWithMarker(strip(splitlines(diff_text)[1]))
    /\ hunk_de[2] # None /\ hunk_cd[2] # None


\* the length a header declares: 1 when it is omitted, the number written otherwise
DeclaredLen(b) == IF b = None THEN 1 ELSE Val(b)

\* the headers @@ -A[,B] +C[,D] @@ with the two lengths as written or omitted
HeaderFields ==
    { <<Hdr(a, b, c, d), b, d>> : a \in HeaderNumbers, b \in OptHeaderNumbers,
                                  c \in HeaderNumbers, d \in OptHeaderNumbers }

\* the header line l is written with the optional lengths b and d
WrittenWith(l, b, d) == \E n \in 1..Len(l) : <<SubSeq(l, 1, n), b, d>> \in HeaderFields

\* the hunk's lengths are those its header declares
LengthsAsDeclared(h) ==
    \E b \in OptHeaderNumbers, d \in OptHeaderNumbers :
        /\ WrittenWith(strip(h.header), b, d)
        /\ h.old_len = DeclaredLen(b)
        /\ h.new_len = DeclaredLen(d)

\* C21: when a hunk header omits a length parse_diff_hunk sets it to 1, and a
\* length that is written, 0 included, is kept as written, in both
\* implementations.
C21_OmittedLengthIsOne ==
    /\ Parsed(hunk_de) => LengthsAsDeclared(HunkOf(hunk_de))
    /\ Parsed(hunk_cd) => LengthsAsDeclared(HunkOf(hunk_cd))

\* both implementations have parsed a header without lengths
C21_Witness ==
    /\ Parsed(hunk_de) /\ Parsed(hunk_cd)
    /\ WrittenWith(strip(HunkOf(hunk_de).header), None, None)
    /\ HunkOf(hunk_de).old_len = 1 /\ HunkOf(hunk_de).new_len = 1
    /\ HunkOf(hunk_cd).old_len = 1 /\ HunkOf(hunk_cd).new_len = 1

\* both implementations have parsed a header with the old length written as 0
C21_WitnessZero ==
    /\ Parsed(hunk_de) /\ Parsed(hunk_cd)
    /\ WrittenWith(strip(HunkOf(hunk_de).header), Some(0), Some(2))
    /\ HunkOf(hunk_de).old_len = 0 /\ HunkOf(hunk_cd).old_len = 0

\* one length omitted and the other written
C21_WitnessOneOmitted ==
    /\ Parsed(hunk_de) /\ Parsed(hunk_cd)
    /\ WrittenWith(strip(HunkOf(hunk_de).header), None, Some(2))
    /\ HunkOf(hunk_cd).old_len = 1 /\ HunkOf(hunk_cd).new_len = 2


\* the numbers of the header and the numbered lines of a hunk
Content(h) ==
    <<h.old_start, h.old_len, h.new_start, h.new_len,
      [i \in 1..Len(h.lines) |->
          <<h.lines[i].tag, h.lines[i].text, h.lines[i].old, h.lines[i].new>>]>>

\* both scripts find the text unparseable, or both return the same content
SameResult ==
    \/ hunk_de[2] = None /\ hunk_cd[2] = None
    \/ /\ hunk_de[2] # None /\ hunk_cd[2] # None
       /\ Content(HunkOf(hunk_de)) = Content(HunkOf(hunk_cd))

\* C25: the two parse_diff_hunk implementations agree on every diff text,
\* texts whose header line has leading whitespace included: both unparseable,
\* or hunks with the same four header numbers and the same sequence of
\* (tag, text, old number, new number) lines.
C25_ParsersAgree == Returned(hunk_de) /\ Returned(hunk_cd) => SameResult

\* the first line that holds the marker after leading whitespace
IndentedMarkerFirst(ls) ==
    \E i \in 1..Len(ls) :
        /\ BeginsWithMarker(strip(ls[i])) /\ ~BeginsWithMarker(ls[i])
        /\ \A j \in 1..(i - 1) : ~BeginsWithMarker(strip(ls[j]))

\* what the code keeps: the two agree unless the first line holding the
\* marker holds it after leading whitespace
C25_AgreeWithoutIndentedMarker ==
    Returned(hunk_de) /\ Returned(hunk_cd) /\ ~IndentedMarkerFirst(splitlines(diff_text))
        => SameResult

\* both scripts have parsed a text with added, removed, context and empty
\* lines into the same hunk
C25_WitnessAgree ==
    /\ Parsed(hunk_de) /\ Parsed(hunk_cd)
    /\ Content(HunkOf(hunk_de)) = Content(HunkOf(hunk_cd))
    /\ Len(HunkOf(hunk_de).lines) >= 3
    /\ \E i \in 1..Len(HunkOf(hunk_de).lines) : HunkOf(hunk_de).lines[i].tag = "-"
    /\ \E i \in 1..Len(HunkOf(hunk_de).lines) : HunkOf(hunk_de).lines[i].tag = "+"

\* an indented header: the collector returns a hunk and the extractor None
C25_WitnessIndented ==
    /\ Returned(hunk_de) /\ Returned(hunk_cd)
    /\ IndentedMarkerFirst(splitlines(diff_text))
    /\ hunk_de[2] = None /\ hunk_cd[2] # None

----------------------------------------------------------------------------
(* review_generator.absolute_new_line *)

\* a line reference as the model's JSON gives it: an integer, null, a string
\* or a number with a fraction
IntRef(n) == [kind |-> "int", val |-> n]
NullRef == [kind |-> "null", val |-> 0]
StrRef == [kind |-> "str", val |-> 2]
FloatRef == [kind |-> "float", val |-> 2]

new_if_add(e) == IF e.tag = "+" /\ e.new # None THEN e.new ELSE None

RECURSIVE FirstAdd(_)
FirstAdd(es) ==
    IF es = <<>> THEN None
    ELSE IF new_if_add(es[1]) # None THEN new_if_add(es[1]) ELSE FirstAdd(Tail(es))

Reverse(es) == [i \in 1..Len(es) |-> es[Len(es) + 1 - i]]

IsPlusMinus(e) == e.tag \in {"+", "-"}

\* the interpretations tried in another order: the reference is first read as
\* a new-file line number of the hunk's range
absolute_new_line_range_first(h, ref) ==
    IF ref.kind # "int" \/ ref.val < 1 THEN None
    ELSE LET new_end == h.new_start + (IF h.new_len > 0 THEN h.new_len ELSE 0) - 1
             plus_minus == SelectSeq(h.lines, IsPlusMinus)
         IN IF h.new_start <= ref.val /\ ref.val <= new_end THEN Some(ref.val)
            ELSE IF plus_minus # <<>> /\ ref.val <= Len(plus_minus)
                    /\ FirstAdd(plus_minus) # None
            THEN IF new_if_add(plus_minus[ref.val]) # None
                 THEN new_if_add(plus_minus[ref.val])
                 ELSE IF FirstAdd(SubSeq(plus_minus, ref.val + 1, Len(plus_minus))) # None
                 THEN FirstAdd(SubSeq(plus_minus, ref.val + 1, Len(plus_minus)))
                 ELSE FirstAdd(Reverse(SubSeq(plus_minus, 1, ref.val - 1)))
            ELSE FirstAdd(h.lines)

absolute_new_line(h, ref) ==
    IF ref.kind # "int" \/ ref.val < 1 THEN None
    ELSE LET lines == h.lines
             new_start == h.new_start
             new_end == new_start + (IF h.new_len > 0 THEN h.new_len ELSE 0) - 1
             plus_minus == SelectSeq(lines, IsPlusMinus)
             byIndex ==
                 IF plus_minus # <<>> /\ ref.val <= Len(plus_minus)
                 THEN LET nl == new_if_add(plus_minus[ref.val])
                          fwd == FirstAdd(SubSeq(plus_minus, ref.val + 1, Len(plus_minus)))
                          bwd == FirstAdd(Reverse(SubSeq(plus_minus, 1, ref.val - 1)))
                      IN IF nl # None THEN nl ELSE IF fwd # None THEN fwd ELSE bwd
                 ELSE None
             candidate == new_start + (ref.val - 1)
         IN IF byIndex # None THEN byIndex
            ELSE IF new_start <= ref.val /\ ref.val <= new_end THEN Some(ref.val)
            ELSE IF new_start <= candidate /\ candidate <= new_end THEN Some(candidate)
            ELSE FirstAdd(lines)

MaxRef == 10

LineRefs == { IntRef(n) : n \in (0 - 2)..MaxRef } \cup { NullRef, StrRef, FloatRef }

ParsedHunks == { Val(parse_diff_hunk(t)) : t \in { u \in DiffTexts : parse_diff_hunk(u) # None } }

InitLocate ==
    /\ pc = "locate"
    /\ hunk \in ParsedHunks
    /\ approx_line \in LineRefs
    /\ abs_new = <<"pending">>
    /\ IdleParse /\ IdlePos /\ IdleBlock /\ IdleScrape /\ IdleGen /\ IdleDown /\ IdleWin /\ IdleCollect

AbsoluteNewLine ==
    /\ pc = "locate"
    /\ pc' = "located"
    /\ abs_new' = absolute_new_line(hunk, approx_line)
    /\ UNCHANGED <<hunk, approx_line, parseVars, posVars, blockVars, scrapeVars, genVars, downVars,
                   winVars, collectVars>>

NextLocate == AbsoluteNewLine

SpecLocate == InitLocate /\ [][NextLocate]_vars

HasAdded(h) == \E i \in 1..Len(h.lines) : h.lines[i].tag = "+"

\* C3: absolute_new_line returns None only if the hunk has no Added line: for a
\* hunk with an Added line the result is a line number for every reference,
\* zero, negative, null and non-integer references included.
C3_NoneOnlyWithoutAdded ==
    pc = "located" /\ HasAdded(hunk) => abs_new # None

\* the part of C3 the code keeps: with an integer reference of at least 1 the
\* result is None only if the hunk has no Added line
C3_IntRefLocated ==
    pc = "located" /\ HasAdded(hunk) /\ approx_line.kind = "int" /\ approx_line.val >= 1
        => abs_new # None

\* the Added and Removed lines of a hunk, in order: what the prompt numbers
Changed(h) == SelectSeq(h.lines, IsPlusMinus)

AddedAt(h) == { i \in 1..Len(Changed(h)) : Changed(h)[i].tag = "+" }

\* the index interpretation of reference r, stated by positions: r itself if
\* it is Added, else the least Added position after r, else the greatest
\* Added position before r
IndexAnchor(h, r) ==
    IF r \in AddedAt(h) THEN r
    ELSE IF \E i \in AddedAt(h) : i > r
    THEN CHOOSE i \in AddedAt(h) : i > r /\ \A j \in AddedAt(h) : j > r => i <= j
    ELSE CHOOSE i \in AddedAt(h) : i < r /\ \A j \in AddedAt(h) : j < r => j <= i

IndexCase ==
    /\ pc = "located"
    /\ approx_line.kind = "int"
    /\ 1 <= approx_line.val /\ approx_line.val <= Len(Changed(hunk))
    /\ HasAdded(hunk)

\* the hunk whose only changed lines are Added lines at new lines 10, 11, 12
AddedTenToTwelve(h) ==
    /\ Len(h.lines) = 3
    /\ \A i \in 1..3 : h.lines[i].tag = "+" /\ h.lines[i].new = Some(9 + i)

\* C15: for an integer reference r between 1 and the number of Added/Removed
\* lines of a hunk with an Added line, the result is the new-line number of the
\* r-th Added/Removed line if it is Added, else of the first Added line after
\* it, else of the closest Added line before it, whatever the other
\* interpretations would give; Added lines at 10, 11, 12 and reference 2 give 11.
C15_IndexFirst ==
    IndexCase =>
        /\ abs_new = Changed(hunk)[IndexAnchor(hunk, approx_line.val)].new
        /\ AddedTenToTwelve(hunk) /\ approx_line.val = 2 => abs_new = Some(11)

\* the example: Added lines at 10, 11, 12, reference 2, result 11
C15_Witness ==
    /\ IndexCase
    /\ AddedTenToTwelve(hunk)
    /\ approx_line.val = 2
    /\ abs_new = Some(11)

\* the reference counts to a Removed line, the anchor is the Added line after
\* it, and the reference is also a new-file line of the hunk's range
C15_WitnessForward ==
    /\ IndexCase
    /\ Changed(hunk)[approx_line.val].tag = "-"
    /\ IndexAnchor(hunk, approx_line.val) > approx_line.val
    /\ hunk.new_start <= approx_line.val
    /\ approx_line.val <= hunk.new_start + hunk.new_len - 1
    /\ abs_new # Some(approx_line.val)

\* the reference counts to a Removed line with no Added line after it
C15_WitnessBackward ==
    /\ IndexCase
    /\ Changed(hunk)[approx_line.val].tag = "-"
    /\ IndexAnchor(hunk, approx_line.val) < approx_line.val

----------------------------------------------------------------------------
(* JSON values and json.loads / json.dumps over character sequences *)

JNull == [t |-> "null", v |-> <<>>]
JBool(b) == [t |-> "bool", v |-> b]
JInt(n) == [t |-> "int", v |-> n]
JFloat(whole, frac) == [t |-> "float", v |-> <<whole, frac>>]
JStr(cs) == [t |-> "str", v |-> cs]
JList(vs) == [t |-> "list", v |-> vs]
JObj(f) == [t |-> "obj", v |-> f]

\* json.loads ends in a value and the index after it, or in a ValueError
Raised == [ok |-> FALSE, val |-> JNull, next |-> 0]
Got(v, i) == [ok |-> TRUE, val |-> v, next |-> i]

RECURSIVE SkipWS(_, _)
SkipWS(s, i) == IF i <= Len(s) /\ IsWS(s[i]) THEN SkipWS(s, i + 1) ELSE i

\* the character an escape \c stands for
Unescape(c) == IF c = "n" THEN "\n" ELSE IF c = "t" THEN "\t" ELSE c

\* the characters of a string literal from index i (after the opening quote)
RECURSIVE ParseString(_, _, _)
ParseString(s, i, acc) ==
    IF i > Len(s) THEN Raised
    ELSE IF s[i] = "\"" THEN Got(JStr(acc), i + 1)
    ELSE IF s[i] = "\\"
         THEN IF i + 1 <= Len(s) /\ s[i + 1] \in {"\"", "\\", "/", "n", "t"}
              THEN ParseString(s, i + 2, Append(acc, Unescape(s[i + 1])))
              ELSE Raised
    ELSE IF s[i] \in {"\n", "\t"} THEN Raised
    ELSE ParseString(s, i + 1, Append(acc, s[i]))

\* -?(0|[1-9]\d*)(\.\d+)? at index i
ParseNumber(s, i) ==
    LET neg == i <= Len(s) /\ s[i] = "-"
        d == IF neg THEN i + 1 ELSE i
        e == IF d <= Len(s) /\ s[d] = "0" THEN d + 1 ELSE DigitsEnd(s, d)
        n == int(SubSeq(s, d, e - 1))
        whole == IF neg THEN 0 - n ELSE n
        f == IF e <= Len(s) /\ s[e] = "." THEN DigitsEnd(s, e + 1) ELSE e
    IN IF e = d THEN Raised
       ELSE IF f > e + 1 THEN Got(JFloat(whole, SubSeq(s, e + 1, f - 1)), f)
       ELSE Got(JInt(whole), e)

RECURSIVE ParseValue(_, _)
RECURSIVE ParseElements(_, _, _)
RECURSIVE ParseMembers(_, _, _)

ParseValue(s, i0) ==
    LET i == SkipWS(s, i0)
    IN IF i > Len(s) THEN Raised
       ELSE IF s[i] = "\"" THEN ParseString(s, i + 1, <<>>)
       ELSE IF s[i] = "[" 
            THEN IF SkipWS(s, i + 1) <= Len(s) /\ s[SkipWS(s, i + 1)] = "]"
                 THEN Got(JList(<<>>), SkipWS(s, i + 1) + 1)
                 ELSE ParseElements(s, i + 1, <<>>)
       ELSE IF s[i] = "{"
            THEN IF SkipWS(s, i + 1) <= Len(s) /\ s[SkipWS(s, i + 1)] = "}"
                 THEN Got(JObj(<<>>), SkipWS(s, i + 1) + 1)
                 ELSE ParseMembers(s, i + 1, <<>>)
       ELSE IF LitAt(s, i, <<"n", "u", "l", "l">>) THEN Got(JNull, i + 4)
       ELSE IF LitAt(s, i, <<"t", "r", "u", "e">>) THEN Got(JBool(TRUE), i + 4)
       ELSE IF LitAt(s, i, <<"f", "a", "l", "s", "e">>) THEN Got(JBool(FALSE), i + 5)
       ELSE IF s[i] = "-" \/ IsDigit(s[i]) THEN ParseNumber(s, i)
       ELSE Raised

\* the elements of an array from index i0, after "[" or ","
ParseElements(s, i0, acc) ==
    LET r == ParseValue(s, i0)
        j == SkipWS(s, r.next)
    IN IF ~r.ok \/ j > Len(s) THEN Raised
       ELSE IF s[j] = "]" THEN Got(JList(Append(acc, r.val)), j + 1)
       ELSE IF s[j] = "," THEN ParseElements(s, j + 1, Append(acc, r.val))
       ELSE Raised

\* the members of an object from index i0, after "{" or ","; a later member
\* replaces an earlier one with the same key
ParseMembers(s, i0, acc) ==
    LET i == SkipWS(s, i0)
        k == IF i <= Len(s) /\ s[i] = "\"" THEN ParseString(s, i + 1, <<>>) ELSE Raised
        c == SkipWS(s, k.next)
        r == IF k.ok /\ c <= Len(s) /\ s[c] = ":" THEN ParseValue(s, c + 1) ELSE Raised
        j == SkipWS(s, r.next)
        f == (k.val.v :> r.val) @@ acc
    IN IF ~r.ok \/ j > Len(s) THEN Raised
       ELSE IF s[j] = "}" THEN Got(JObj(f), j + 1)
       ELSE IF s[j] = "," THEN ParseMembers(s, j + 1, f)
       ELSE Raised

\* json.loads: the value of the whole text, or None when it raises
\* the parsed value r stands for the whole text: only whitespace follows it
WholeText(s, r) ==
    IF r.ok /\ SkipWS(s, r.next) > Len(s) THEN Some(r.val) ELSE None

json_loads(s) == WholeText(s, ParseValue(s, 1))

RECURSIVE EscapeChars(_)
EscapeChars(cs) ==
    IF cs = <<>> THEN <<>>
    ELSE (IF cs[1] = "\"" THEN <<"\\", "\"">>
          ELSE IF cs[1] = "\\" THEN <<"\\", "\\">>
          ELSE IF cs[1] = "\n" THEN <<"\\", "n">>
          ELSE IF cs[1] = "\t" THEN <<"\\", "t">>
          ELSE <<cs[1]>>) \o EscapeChars(Tail(cs))

\* json.dumps of a string
json_dumps_str(cs) == <<"\"">> \o EscapeChars(cs) \o <<"\"">>

\* dict.get(key, default)
get(o, key, default) == IF key \in DOMAIN o.v THEN o.v[key] ELSE default

----------------------------------------------------------------------------
(* review_generator: recovery of the comment array from the model's text *)

Lowers == <<"a", "b", "c", "d", "e", "f", "g", "h", "i", "j", "k", "l", "m",
            "n", "o", "p", "q", "r", "s", "t", "u", "v", "w", "x", "y", "z">>
Uppers == <<"A", "B", "C", "D", "E", "F", "G", "H", "I", "J", "K", "L", "M",
            "N", "O", "P", "Q", "R", "S", "T", "U", "V", "W", "X", "Y", "Z">>

UpperChar(c) == IF \E i \in 1..26 : Lowers[i] = c
                THEN Uppers[CHOOSE i \in 1..26 : Lowers[i] = c] ELSE c
LowerChar(c) == IF \E i \in 1..26 : Uppers[i] = c
                THEN Lowers[CHOOSE i \in 1..26 : Uppers[i] = c] ELSE c

upper(cs) == [i \in 1..Len(cs) |-> UpperChar(cs[i])]
lower(cs) == [i \in 1..Len(cs) |-> LowerChar(cs[i])]

\* str.find(sub, i) and str.rfind(sub), 1-based, 0 when absent
RECURSIVE find(_, _, _)
find(s, sub, i) == IF i + Len(sub) - 1 > Len(s) THEN 0
                   ELSE IF LitAt(s, i, sub) THEN i ELSE find(s, sub, i + 1)

RECURSIVE rfind(_, _, _)
rfind(s, sub, i) == IF i < 1 THEN 0
                    ELSE IF LitAt(s, i, sub) THEN i ELSE rfind(s, sub, i - 1)

contains(s, sub) == find(s, sub, 1) # 0

\* the grave accent of a code fence (the one character a string cannot hold here)
Grave == "grave"

\* str.strip of grave accents
RECURSIVE strip_backticks(_)
strip_backticks(s) ==
    IF s # <<>> /\ s[1] = Grave THEN strip_backticks(Tail(s))
    ELSE IF s # <<>> /\ s[Len(s)] = Grave THEN strip_backticks(SubSeq(s, 1, Len(s) - 1))
    ELSE s

ALLOWED_TYPES ==
    { <<"S", "T", "Y", "L", "E">>, <<"L", "O", "G", "I", "C">>, <<"D", "O", "C", "U", "M", "E", "N", "T", "A", "T", "I", "O", "N">>, <<"S", "E", "C", "U", "R", "I", "T", "Y">>, <<"P", "E", "R", "F", "O", "R", "M", "A", "N", "C", "E">>, <<"O", "T", "H", "E", "R">> }

OTHER_TYPE == <<"O", "T", "H", "E", "R">>

strip_code_fences(s0) ==
    LET s == strip(s0)
    IN IF startswith(s, <<Grave, Grave, Grave>>)
       THEN LET t == strip_backticks(s)
                i == find(t, <<"[">>, 1)
            IN IF i # 0 THEN SubSeq(t, i, Len(t)) ELSE t
       ELSE s

isolate_first_json_array(s) ==
    LET start == find(s, <<"[">>, 1)
        end == rfind(s, <<"]">>, Len(s))
    IN IF start = 0 THEN s
       ELSE IF end = 0 \/ end <= start THEN SubSeq(s, start, Len(s))
       ELSE SubSeq(s, start, end)

\* EndCandidates with the first pattern only
EndCandidates_comma_only(s, k) ==
    LET p1 == { m \in k..Len(s) :
                  s[m] = "}" /\ SkipWS(s, m + 1) <= Len(s) /\ s[SkipWS(s, m + 1)] = "," }
    IN IF p1 = {} THEN {} ELSE {Min(p1)}

\* where the patterns }\s*,  }\s*\]?  }\s*\n  first match at or after index k
EndCandidates(s, k) ==
    LET braces == { m \in k..Len(s) : s[m] = "}" }
        p1 == { m \in braces : SkipWS(s, m + 1) <= Len(s) /\ s[SkipWS(s, m + 1)] = "," }
        p2 == braces
        p3 == { m \in braces : \E q \in (m + 1)..(SkipWS(s, m + 1) - 1) : s[q] = "\n" }
    IN (IF p1 = {} THEN {} ELSE {Min(p1)})
       \cup (IF p2 = {} THEN {} ELSE {Min(p2)})
       \cup (IF p3 = {} THEN {} ELSE {Min(p3)})

TypeKey == <<"\"", "t", "y", "p", "e">>

\* the loop of _fix_type_concat_bug from index i on
RECURSIVE fix_from(_, _)
fix_from(s, i) ==
    IF i > Len(s) THEN <<>>
    ELSE LET j == find(s, TypeKey, i)
             k == j + Len(TypeKey)
         IN IF j = 0 THEN SubSeq(s, i, Len(s))
            ELSE IF k <= Len(s) /\ s[k] # "\""
            THEN LET obj_end == IF EndCandidates(s, k) # {}
                                THEN Min(EndCandidates(s, k)) ELSE Len(s)
                     accidental == strip(SubSeq(s, k, obj_end - 1))
                     replacement == <<"\"", "t", "y", "p", "e", "\"", ":", " ", "\"", "O", "T", "H", "E", "R", "\"", ",", " ", "\"", "c", "o", "m", "m", "e", "n", "t", "\"", ":", " ">> \o json_dumps_str(accidental)
                 IN SubSeq(s, i, j - 1) \o replacement \o fix_from(s, obj_end)
            ELSE SubSeq(s, i, j - 1)
                 \o SubSeq(s, j, IF j + 5 <= Len(s) THEN j + 5 ELSE Len(s))
                 \o fix_from(s, j + 6)

fix_type_concat_bug(s) == fix_from(s, 1)

\* _normalize_types without the test against ALLOWED_TYPES
normalize_types_unchecked(objs) ==
    IF \E i \in 1..Len(objs) : objs[i].t # "obj" THEN None
    ELSE Some([i \in 1..Len(objs) |->
            LET o == objs[i]
                ctype == get(o, <<"t", "y", "p", "e">>, JStr(OTHER_TYPE))
            IN [line |-> get(o, <<"l", "i", "n", "e">>, JNull),
                type |-> IF ctype.t = "str" THEN upper(strip(ctype.v)) ELSE OTHER_TYPE,
                comment |-> get(o, <<"c", "o", "m", "m", "e", "n", "t">>, JNull)]])

\* _normalize_types: None when an element has no get (the call raises)
normalize_types(objs) ==
    IF \E i \in 1..Len(objs) : objs[i].t # "obj" THEN None
    ELSE Some([i \in 1..Len(objs) |->
            LET o == objs[i]
                ctype == get(o, <<"t", "y", "p", "e">>, JStr(OTHER_TYPE))
                ctype_up == upper(strip(ctype.v))
            IN [line |-> get(o, <<"l", "i", "n", "e">>, JNull),
                type |-> IF ctype.t = "str" /\ ctype_up \in ALLOWED_TYPES
                         THEN ctype_up ELSE OTHER_TYPE,
                comment |-> get(o, <<"c", "o", "m", "m", "e", "n", "t">>, JNull)]])

\* one try block: json.loads, the list test and _normalize_types;
\* "returned" with the comments, "raised", or "not_list"
Normalized(n) == IF n = None THEN <<"raised">> ELSE <<"returned", Val(n)>>

Loaded(data) ==
    IF data = None THEN <<"raised">>
    ELSE IF Val(data).t # "list" THEN <<"not_list">>
    ELSE Normalized(normalize_types(Val(data).v))

TryParse(text) == Loaded(json_loads(text))

\* ThirdTry without the last line's return for a value that is no list
ThirdTry_fail_only_on_raise(t) ==
    IF t[1] = "returned" THEN [comments |-> t[2], parse_fail |-> FALSE]
    ELSE [comments |-> <<>>, parse_fail |-> t[1] = "raised"]

\* lines 108-116: the third try, on the repaired text
ThirdTry(t) ==
    IF t[1] = "returned" THEN [comments |-> t[2], parse_fail |-> FALSE]
    ELSE [comments |-> <<>>, parse_fail |-> TRUE]

\* lines 98-106: the second try, on the isolated array s
SecondTry(s, t) ==
    IF t[1] = "returned" THEN [comments |-> t[2], parse_fail |-> FALSE]
    ELSE ThirdTry(TryParse(fix_type_concat_bug(s)))

Isolated(s) == SecondTry(s, TryParse(s))

\* lines 90-96: the first try, on the raw text
FirstTry(raw, t) ==
    IF t[1] = "returned" THEN [comments |-> t[2], parse_fail |-> FALSE]
    ELSE Isolated(isolate_first_json_array(strip_code_fences(raw)))

parse_model_json_strict(raw) == FirstTry(raw, TryParse(raw))

----------------------------------------------------------------------------
(* review_generator.main: one row per hunk *)

\* bool(v) of a JSON value
Truthy(j) ==
    CASE j.t = "null" -> FALSE
      [] j.t = "bool" -> j.v
      [] j.t = "int" -> j.v # 0
      [] j.t = "float" -> j.v[1] # 0 \/ \E i \in 1..Len(j.v[2]) : j.v[2][i] # "0"
      [] j.t = "str" -> j.v # <<>>
      [] j.t = "list" -> j.v # <<>>
      [] j.t = "obj" -> DOMAIN j.v # {}

\* the line value as absolute_new_line's isinstance test sees it
RefOf(j) ==
    CASE j.t = "int" -> IntRef(j.v)
      [] j.t = "bool" -> IntRef(IF j.v THEN 1 ELSE 0)
      [] j.t = "null" -> NullRef
      [] j.t = "float" -> FloatRef
      [] j.t \in {"str", "list", "obj"} -> StrRef

LooksGood == <<"l", "o", "o", "k", "s", " ", "g", "o", "o", "d">>

\* p.get("comment") and "looks good" not in p["comment"].lower()
Informative(p) == Truthy(p.comment) /\ ~contains(lower(p.comment.v), LooksGood)

\* the comprehension calls lower() on a truthy comment that is not a string
FilterRaises(parsed) ==
    \E i \in 1..Len(parsed) : Truthy(parsed[i].comment) /\ parsed[i].comment.t # "str"

\* the slice seq[:n]
Prefix(seq, n) == [i \in 1..(IF n < Len(seq) THEN n ELSE Len(seq)) |-> seq[i]]

\* max(filtered, key=len of the comment): the first of the longest
Longest(fs) ==
    fs[Min({ i \in 1..Len(fs) :
                \A k \in 1..Len(fs) : Len(fs[k].comment.v) <= Len(fs[i].comment.v) })]

FailRow(entry, err, raw) ==
    [parse_fail |-> TRUE, file_path |-> entry.file_path, hunk_index |-> entry.hunk_index,
     error |-> err, raw |-> raw,
     generated_line |-> JNull, generated_line_abs_new |-> None,
     generated_type |-> <<>>, generated_comment |-> JNull]

process_diff_line(line_obj, entry) ==
    [parse_fail |-> FALSE, file_path |-> entry.file_path, hunk_index |-> entry.hunk_index,
     error |-> None, raw |-> None,
     generated_line |-> line_obj.line,
     generated_line_abs_new |-> absolute_new_line(entry.hunk, RefOf(line_obj.line)),
     generated_type |-> upper(line_obj.type),
     generated_comment |-> line_obj.comment]

\* the texts the model returns (already stripped by ask_ollama)
ModelTexts ==
    { <<"[", "]">>,
      <<"[", "{", "\"", "l", "i", "n", "e", "\"", ":", "1", ",", "\"", "t", "y", "p", "e", "\"", ":", "\"", "s", "t", "y", "l", "e", "\"", ",", "\"", "c", "o", "m", "m", "e", "n", "t", "\"", ":", "\"", "x", "\"", "}", "]">>,
      <<"[", "{", "\"", "l", "i", "n", "e", "\"", ":", "2", ",", "\"", "c", "o", "m", "m", "e", "n", "t", "\"", ":", "\"", "L", "o", "o", "k", "s", " ", "g", "o", "o", "d", "\"", "}", "]">>,
      <<"[", "{", "\"", "l", "i", "n", "e", "\"", ":", "0", ",", "\"", "c", "o", "m", "m", "e", "n", "t", "\"", ":", "n", "u", "l", "l", "}", "]">>,
      <<"[", "{", "\"", "c", "o", "m", "m", "e", "n", "t", "\"", ":", "5", "}", "]">>,
      <<"[", "{", "\"", "l", "i", "n", "e", "\"", ":", "1", ",", "\"", "c", "o", "m", "m", "e", "n", "t", "\"", ":", "\"", "a", "\"", "}", ",", "{", "\"", "l", "i", "n", "e", "\"", ":", "\"", "2", "\"", ",", "\"", "t", "y", "p", "e", "\"", ":", "\"", "n", "o", "n", "s", "e", "n", "s", "e", "\"", ",", "\"", "c", "o", "m", "m", "e", "n", "t", "\"", ":", "\"", "b", "b", "\"", "}", "]">>,
      <<Grave, Grave, Grave, "j", "s", "o", "n", "\n", "[", "{", "\"", "l", "i", "n", "e", "\"", ":", "3", ",", "\"", "t", "y", "p", "e", "\"", ":", "\"", " ", "L", "o", "g", "i", "c", " ", "\"", ",", "\"", "c", "o", "m", "m", "e", "n", "t", "\"", ":", "\"", "y", "\"", "}", "]", "\n", Grave, Grave, Grave>>,
      <<"[", "{", "\"", "t", "y", "p", "e", " ", "F", "O", "O", ",", " ", "\"", "c", "o", "m", "m", "e", "n", "t", "\"", ":", "\"", "x", "\"", "}", "]">>,
      <<"S", "u", "r", "e", ":", " ", "[", "{", "\"", "l", "i", "n", "e", "\"", ":", "7", ",", "\"", "t", "y", "p", "e", "\"", ":", "\"", "S", "E", "C", "U", "R", "I", "T", "Y", "\"", ",", "\"", "c", "o", "m", "m", "e", "n", "t", "\"", ":", "\"", "z", "\"", "}", "]", " ", "o", "k">>,
      <<"[", "1", "]">>,
      <<"{", "}">>,
      <<"n", "o">> }

MaxFiles == 2
MaxHunksPerFile == 2
MaxHunks == 2

GenHunks ==
    { Val(parse_diff_hunk(<<"@", "@", " ", "-", "5", ",", "3", " ", "+", "5", ",", "4", " ", "@", "@", "\n", " ", "a", "\n", "+", "c", "\n", "-", "r", "\n", "+", "d">>)),
      Val(parse_diff_hunk(<<"@", "@", " ", "-", "5", ",", "2", " ", "+", "7", " ", "@", "@", "\n", "-", "r", "\n", " ", "e">>)) }

PathA == <<"a", ".", "p", "y">>
PathB == <<"b", ".", "p", "y">>

\* the loop order of `for line in fin` and `for h_idx, hunk in enumerate(hunks)`;
\* a record without hunks contributes nothing
RECURSIVE Flatten(_)
Flatten(recs) ==
    IF recs = <<>> THEN <<>>
    ELSE [i \in 1..Len(recs[1].hunks) |->
             [file_path |-> recs[1].path, hunk_index |-> i - 1, hunk |-> recs[1].hunks[i]]]
         \o Flatten(Tail(recs))

DiffRecords ==
    { [path |-> PathA, hunks |-> hs] : hs \in SeqsUpTo(GenHunks, MaxHunksPerFile) }
    \cup { [path |-> PathB, hunks |-> <<h>>] : h \in { g \in GenHunks : HasAdded(g) } }

InitGen ==
    /\ pc = "gen"
    /\ \E recs \in SeqsUpTo(DiffRecords, MaxFiles) :
          /\ Len(Flatten(recs)) <= MaxHunks
          /\ hunks = Flatten(recs)
    /\ args_max \in 0..1
    /\ h_idx = 0
    /\ processed = 0
    /\ written = 0
    /\ fout = <<>>
    /\ escaped = None
    /\ raw_text = Idle /\ recovered = Idle
    /\ IdleParse /\ IdlePos /\ IdleLoc /\ IdleBlock /\ IdleScrape /\ IdleDown /\ IdleWin /\ IdleCollect

LoopRuns ==
    /\ pc = "gen"
    /\ h_idx < Len(hunks)
    /\ ~(args_max # 0 /\ processed >= args_max)

\* ask_ollama raises: a parse_fail row with the error and no raw text
HunkCallFails ==
    /\ LoopRuns
    /\ fout' = Append(fout, FailRow(hunks[h_idx + 1], Some("error"), None))
    /\ written' = written + 1
    /\ processed' = processed + 1
    /\ h_idx' = h_idx + 1
    /\ UNCHANGED <<pc, hunks, args_max, escaped, raw_text, recovered,
                   parseVars, posVars, locVars, blockVars, scrapeVars, downVars, winVars, collectVars>>

\* lines 369-397: the row for the recovered comments res
HunkOutcome(entry, raw, res) ==
    /\ LET parsed == res.comments
           kept == SelectSeq(parsed, Informative)
           chosen == IF kept = <<>> THEN Prefix(parsed, 1) ELSE <<Longest(kept)>>
       IN IF res.parse_fail
          THEN /\ fout' = Append(fout, FailRow(entry, None, Some(raw)))
               /\ written' = written + 1
               /\ processed' = processed + 1
               /\ h_idx' = h_idx + 1
               /\ UNCHANGED <<pc, escaped>>
          ELSE IF FilterRaises(parsed)
          THEN /\ escaped' = Some("AttributeError")
               /\ pc' = "crashed"
               /\ UNCHANGED <<fout, written, processed, h_idx>>
          ELSE IF chosen = <<>>
          THEN /\ escaped' = Some("IndexError")
               /\ pc' = "crashed"
               /\ UNCHANGED <<fout, written, processed, h_idx>>
          ELSE /\ fout' = Append(fout, process_diff_line(chosen[1], entry))
               /\ written' = written + 1
               /\ processed' = processed + 1
               /\ h_idx' = h_idx + 1
               /\ UNCHANGED <<pc, escaped>>
    /\ UNCHANGED <<hunks, args_max, raw_text, recovered,
                   parseVars, posVars, locVars, blockVars, scrapeVars, downVars, winVars, collectVars>>

\* ask_ollama returns raw: lines 355-397
HunkCallReturns(raw) ==
    /\ LoopRuns
    /\ HunkOutcome(hunks[h_idx + 1], raw, parse_model_json_strict(raw))

\* the loops end: the input is exhausted or --max is reached
GenDone ==
    /\ pc = "gen"
    /\ h_idx >= Len(hunks) \/ (args_max # 0 /\ processed >= args_max)
    /\ pc' = "done"
    /\ UNCHANGED <<genVars, parseVars, posVars, locVars, blockVars, scrapeVars, downVars, winVars,
                   collectVars>>

\* the run is interrupted between two hunks: the with block of line 310
\* closes the output file
GenInterrupted ==
    /\ pc = "gen"
    /\ pc' = "gen_interrupted"
    /\ UNCHANGED <<genVars, parseVars, posVars, locVars, blockVars, scrapeVars, downVars, winVars,
                   collectVars>>

NextGen ==
    \/ HunkCallFails
    \/ \E raw \in ModelTexts : HunkCallReturns(raw)
    \/ GenDone
    \/ GenInterrupted

SpecGen == InitGen /\ [][NextGen]_vars

\* C4: whatever the model call does for a hunk (it fails, its text cannot be
\* recovered, or its text recovers to any list, the empty list and comments that
\* are null or not strings included), one row is appended for that hunk, no
\* exception leaves main and the loop goes on to the next hunk.
C4_OneRowPerHunk ==
    /\ escaped = None
    /\ pc # "crashed"
    /\ Len(fout) = h_idx
    /\ written = h_idx /\ processed = h_idx

\* what the loop does keep: while no exception has left main, every hunk gone
\* through has exactly one row
C4_RowsWhileRunning ==
    escaped = None => Len(fout) = h_idx /\ written = h_idx /\ processed = h_idx

----------------------------------------------------------------------------
(* collect_data.extract_block_definition *)

MAX_DEF_BLOCK_LINES == 300

clamp_line(num, lo, hi) ==
    LET m == IF num < hi THEN num ELSE hi
    IN IF lo > m THEN lo ELSE m

\* len(li) - len(li.lstrip())
Indent(li) == Len(li) - Len(lstrip(li))

\* the backward scan: nearest index <= i whose stripped line starts with kw, 0 if none
ScanBack(lines, i, kw) ==
    IF \A k \in 1..i : ~startswith(lstrip(lines[k]), kw) THEN 0
    ELSE Max({ k \in 1..i : startswith(lstrip(lines[k]), kw) })

\* the scan stopping at decorator lines as well
BreaksAt_at_decorators(li, anchor_indent) ==
    /\ strip(li) # <<>>
    /\ Indent(li) <= anchor_indent

\* the forward scan from line k: the last index of the block
\* line 193: the line ends the block: it is not blank, not indented more than
\* the definition and no decorator
BreaksAt(li, anchor_indent) ==
    /\ strip(li) # <<>>
    /\ Indent(li) <= anchor_indent
    /\ ~startswith(lstrip(li), <<"@">>)

\* the loop breaks at the first such line from k on, or runs to the last line
ScanForward(lines, k, end_idx, anchor_indent) ==
    IF k > Len(lines) \/ BreaksAt(lines[k], anchor_indent) THEN end_idx
    ELSE IF \A j \in k..Len(lines) : ~BreaksAt(lines[j], anchor_indent) THEN Len(lines)
    ELSE Min({ j \in k..Len(lines) : BreaksAt(lines[j], anchor_indent) }) - 1

DefKw == <<"d", "e", "f", " ">>
ClassKw == <<"c", "l", "a", "s", "s", " ">>

\* the chosen start line (1-based), 0 when there is neither a def nor a class
BlockStart(lines, anchor) ==
    LET idx == clamp_line(anchor, 1, Len(lines))
        def_idx == ScanBack(lines, idx, DefKw)
    IN IF def_idx # 0 THEN def_idx ELSE ScanBack(lines, idx, ClassKw)

\* an oversized block cut at the limit instead of discarded
extract_block_definition_truncating(lines, anchor) ==
    IF lines = <<>> \/ anchor = None THEN None
    ELSE IF BlockStart(lines, Val(anchor)) = 0 THEN None
    ELSE Some(join(Prefix(SubSeq(lines, BlockStart(lines, Val(anchor)),
                                 ScanForward(lines, BlockStart(lines, Val(anchor)) + 1,
                                             BlockStart(lines, Val(anchor)),
                                             Indent(lines[BlockStart(lines, Val(anchor))]))),
                          MAX_DEF_BLOCK_LINES)))

extract_block_definition(lines, anchor) ==
    IF lines = <<>> \/ anchor = None THEN None
    ELSE LET anchor_start == BlockStart(lines, Val(anchor))
         IN IF anchor_start = 0 THEN None
            ELSE LET end_idx == ScanForward(lines, anchor_start + 1, anchor_start,
                                            Indent(lines[anchor_start]))
                     blk == SubSeq(lines, anchor_start, end_idx)
                 IN IF Len(blk) > MAX_DEF_BLOCK_LINES THEN None
                    ELSE Some(join(blk))

MaxFileLines == 4

FileLines ==
    { <<"d", "e", "f", " ", "f">>, <<" ", " ", "x">>, <<" ", " ", "d", "e", "f", " ", "g">>, <<>>, <<"y">>, <<"@", "d">>, <<"c", "l", "a", "s", "s", " ", "C">> }

\* a definition of n + 1 lines: def f and n body lines
LongDef(n) == <<<<"d", "e", "f", " ", "f">>>> \o [i \in 1..n |-> <<" ", " ", "x">>]

\* files with a definition of just the limit and of one line more, at the end
\* of the file and before an unindented line
LongFiles ==
    { LongDef(MAX_DEF_BLOCK_LINES - 1), LongDef(MAX_DEF_BLOCK_LINES),
      LongDef(MAX_DEF_BLOCK_LINES - 1) \o <<<<"y">>>>,
      LongDef(MAX_DEF_BLOCK_LINES) \o <<<<"y">>>> }

InitBlock ==
    /\ pc = "extract"
    /\ old_lines \in SeqsUpTo(FileLines, MaxFileLines) \cup LongFiles
    /\ anchor_line \in {None} \cup { Some(k) : k \in 0..(MaxFileLines + 1) }
    /\ block = <<"pending">>
    /\ IdleParse /\ IdlePos /\ IdleLoc /\ IdleScrape /\ IdleGen /\ IdleDown /\ IdleWin /\ IdleCollect

ExtractBlockDefinition ==
    /\ pc = "extract"
    /\ pc' = "extracted"
    /\ block' = extract_block_definition(old_lines, anchor_line)
    /\ UNCHANGED <<old_lines, anchor_line, parseVars, posVars, locVars, scrapeVars, genVars, downVars,
                   winVars, collectVars>>

NextBlock == ExtractBlockDefinition

SpecBlock == InitBlock /\ [][NextBlock]_vars

\* the lines a..b of the file, joined as the function joins a block
LinesText(a, b) == join(SubSeq(old_lines, a, b))

\* C5: a returned block encloses the (clamped) anchor: it is the text of lines
\* a..b of the file with a <= anchor <= b; an anchor after the end of the nearest
\* preceding function does not get that function's block.
C5_BlockEnclosesAnchor ==
    pc = "extracted" /\ block # None =>
        \E a \in 1..Len(old_lines), b \in 1..Len(old_lines) :
            /\ a <= clamp_line(Val(anchor_line), 1, Len(old_lines))
            /\ clamp_line(Val(anchor_line), 1, Len(old_lines)) <= b
            /\ Val(block) = LinesText(a, b)

\* what the code keeps of C5: the block starts at or before the anchor
C5_BlockStartsAtOrBeforeAnchor ==
    pc = "extracted" /\ block # None =>
        \E a \in 1..clamp_line(Val(anchor_line), 1, Len(old_lines)), b \in 1..Len(old_lines) :
            Val(block) = LinesText(a, b)

IsDefLine(li) == startswith(lstrip(li), DefKw) \/ startswith(lstrip(li), ClassKw)
IsBlank(li) == strip(li) = <<>>

\* a definition occupies exactly lines a..b: a def/class line, then a body of
\* more-indented lines (blank lines between them), ending at its last body line
OccupiesExactly(lines, a, b) ==
    /\ a <= b /\ b <= Len(lines)
    /\ IsDefLine(lines[a])
    /\ \A k \in (a + 1)..b : IsBlank(lines[k]) \/ Indent(lines[k]) > Indent(lines[a])
    /\ ~IsBlank(lines[b])
    /\ b < Len(lines) => IsBlank(lines[b + 1]) \/ Indent(lines[b + 1]) <= Indent(lines[a])

\* the definition at a..b is not inside another definition of the file
Outermost(lines, a, b) ==
    \A c \in 1..Len(lines), d \in 1..Len(lines) :
        OccupiesExactly(lines, c, d) /\ c <= a /\ b <= d => c = a /\ d = b

\* C6: when a definition occupies exactly lines a..b (not nested in another one)
\* amid unrelated content, every anchor in a..b gets exactly the lines a..b:
\* no trailing blank line, no decorator of a following definition, no sub-block.
C6_ExactBlock ==
    pc = "extracted" /\ old_lines # <<>> /\ anchor_line # None =>
        \A a \in 1..Len(old_lines), b \in 1..Len(old_lines) :
            /\ OccupiesExactly(old_lines, a, b)
            /\ Outermost(old_lines, a, b)
            /\ a <= Val(anchor_line) /\ Val(anchor_line) <= b
            => block = Some(LinesText(a, b))


\* a decorator line
IsDecorator(li) == lstrip(li) # <<>> /\ Head(lstrip(li)) = "@"

\* the line ends a block whose start line has indentation d
EndsBlock(li, d) == ~IsBlank(li) /\ ~IsDecorator(li) /\ Indent(li) <= d

\* b is the last line before the first line after a that ends the block, or
\* the last line of the file when no line after a ends it
LastBeforeEnd(lines, a, b) ==
    /\ \A j \in (a + 1)..b : ~EndsBlock(lines[j], Indent(lines[a]))
    /\ b = Len(lines) \/ EndsBlock(lines[b + 1], Indent(lines[a]))

\* the returned block is made of the lines from a to the line before the end
RunsToEnd(lines, a) ==
    \E b \in a..Len(lines) : LastBeforeEnd(lines, a, b) /\ block = Some(LinesText(a, b))

\* C23: a returned block runs from the chosen start line, of indentation d, to
\* the line before the first later line that is not blank, is no decorator and
\* has indentation <= d; every line between is in the block, and the block
\* runs to the end of the file when there is no such line.
C23_EndsAtFirstDedent ==
    pc = "extracted" /\ block # None =>
        RunsToEnd(old_lines, BlockStart(old_lines, Val(anchor_line)))

\* a block that kept a blank or decorator line of indentation <= d and left
\* out the line that ends it
C23_Witness ==
    /\ pc = "extracted" /\ block # None
    /\ \E b \in 2..(Len(old_lines) - 1) :
          /\ block = Some(LinesText(1, b))
          /\ EndsBlock(old_lines[b + 1], Indent(old_lines[1]))
          /\ \E j \in 2..b :
                /\ (IsBlank(old_lines[j]) \/ IsDecorator(old_lines[j]))
                /\ Indent(old_lines[j]) <= Indent(old_lines[1])

\* a block that runs to the end of the file
C23_WitnessToEnd ==
    /\ pc = "extracted" /\ block # None
    /\ Len(old_lines) >= 3
    /\ \A j \in 2..Len(old_lines) : ~EndsBlock(old_lines[j], Indent(old_lines[1]))
    /\ block = Some(LinesText(1, Len(old_lines)))

----------------------------------------------------------------------------
(* diff_extractor.split_hunks and build_unified_position_table *)

RECURSIVE split_from(_, _, _)
split_from(lines, cur, acc) ==
    IF lines = <<>> THEN (IF cur # <<>> THEN Append(acc, join(cur)) ELSE acc)
    ELSE IF startswith(lines[1], <<"@", "@">>) /\ cur # <<>>
         THEN split_from(Tail(lines), <<lines[1]>>, Append(acc, join(cur)))
         ELSE split_from(Tail(lines), Append(cur, lines[1]), acc)

split_hunks(text) == IF text = <<>> THEN <<>> ELSE split_from(splitlines(text), <<>>, <<>>)

\* the empty dict
EmptyTable == <<>>

\* pos_table.clear() and pos = 0 at lines 160-161 undo all the first loop
\* (lines 142-155) does; the second loop's body over one parsed hunk
\* pos_table with a line's position entered, unless its new number has one
record_line(ln, p, tbl) ==
    IF ln.tag \in {"+", " "} /\ ln.new # None /\ Val(ln.new) \notin DOMAIN tbl
    THEN (Val(ln.new) :> p) @@ tbl
    ELSE tbl

\* walk_lines with positions counted from the start of each hunk
RECURSIVE walk_lines_local(_, _, _)
walk_lines_local(lns, q, tbl) ==
    IF lns = <<>> THEN tbl
    ELSE walk_lines_local(Tail(lns), q + 1, record_line(lns[1], q + 1, tbl))

walk_lines_per_hunk(lns, p, tbl) ==
    [pos |-> p + Len(lns), pos_table |-> walk_lines_local(lns, 0, tbl)]

RECURSIVE walk_lines(_, _, _)
walk_lines(lns, p, tbl) ==
    IF lns = <<>> THEN [pos |-> p, pos_table |-> tbl]
    ELSE walk_lines(Tail(lns), p + 1, record_line(lns[1], p + 1, tbl))

MaxPatchLines == 4

PatchLines ==
    { Hdr(1, None, 1, None), Hdr(3, None, 3, None), <<"@", "@", " ", "x">>,
      <<"+", "c">>, <<"-", "r">>, <<" ", "a">>, <<>> }

Patches == { join(ls) : ls \in SeqsUpTo(PatchLines, MaxPatchLines) }

InitTable ==
    /\ pc = "table"
    /\ patch \in Patches
    /\ chunks = <<>>
    /\ chunk_i = 0
    /\ pos = 0
    /\ pos_table = EmptyTable
    /\ hunks_parsed = None
    /\ IdleParse /\ IdleLoc /\ IdleBlock /\ IdleScrape /\ IdleGen /\ IdleDown /\ IdleWin /\ IdleCollect

\* `if not patch: return {}`
TableEmptyPatch ==
    /\ pc = "table"
    /\ patch = <<>>
    /\ pc' = "table_done"
    /\ UNCHANGED <<posVars, parseVars, locVars, blockVars, scrapeVars, genVars, downVars, winVars,
                   collectVars>>

TableSplit ==
    /\ pc = "table"
    /\ patch # <<>>
    /\ pc' = "table_loop"
    /\ chunks' = split_hunks(patch)
    /\ UNCHANGED <<patch, chunk_i, pos, pos_table, hunks_parsed,
                   parseVars, locVars, blockVars, scrapeVars, genVars, downVars, winVars, collectVars>>

\* a chunk parse_diff_hunk rejects: `continue`
TableSkipChunk ==
    /\ pc = "table_loop"
    /\ chunk_i < Len(chunks)
    /\ parse_diff_hunk(chunks[chunk_i + 1]) = None
    /\ chunk_i' = chunk_i + 1
    /\ UNCHANGED <<pc, patch, chunks, pos, pos_table, hunks_parsed,
                   parseVars, locVars, blockVars, scrapeVars, genVars, downVars, winVars, collectVars>>

TableHunk ==
    /\ pc = "table_loop"
    /\ chunk_i < Len(chunks)
    /\ parse_diff_hunk(chunks[chunk_i + 1]) # None
    /\ LET r == walk_lines(Val(parse_diff_hunk(chunks[chunk_i + 1])).lines, pos, pos_table)
       IN pos' = r.pos /\ pos_table' = r.pos_table
    /\ chunk_i' = chunk_i + 1
    /\ UNCHANGED <<pc, patch, chunks, hunks_parsed,
                   parseVars, locVars, blockVars, scrapeVars, genVars, downVars, winVars, collectVars>>

TableReturn ==
    /\ pc = "table_loop"
    /\ chunk_i = Len(chunks)
    /\ pc' = "table_done"
    /\ UNCHANGED <<posVars, parseVars, locVars, blockVars, scrapeVars, genVars, downVars, winVars,
                   collectVars>>

NextTable == TableEmptyPatch \/ TableSplit \/ TableSkipChunk \/ TableHunk \/ TableReturn

SpecTable == InitTable /\ [][NextTable]_vars

----------------------------------------------------------------------------
(* diff_extractor.extract_pr_diffs, for one file of the pull request *)

\* line 205: the parsed hunks of the chunks, those that parse
RECURSIVE keep_parsed(_)
keep_parsed(hunks_raw) ==
    IF hunks_raw = <<>> THEN <<>>
    ELSE (IF parse_diff_hunk(hunks_raw[1]) # None
          THEN <<Val(parse_diff_hunk(hunks_raw[1]))>> ELSE <<>>)
         \o keep_parsed(Tail(hunks_raw))

InitExtract ==
    /\ pc = "extract_file"
    /\ patch \in Patches
    /\ chunks = <<>>
    /\ chunk_i = 0
    /\ pos = 0
    /\ pos_table = EmptyTable
    /\ hunks_parsed = None
    /\ IdleParse /\ IdleLoc /\ IdleBlock /\ IdleScrape /\ IdleGen /\ IdleDown /\ IdleWin /\ IdleCollect

\* lines 193-202: no patch, the record has no hunks and an empty table
ExtractNoPatch ==
    /\ pc = "extract_file"
    /\ patch = <<>>
    /\ pc' = "table_done"
    /\ hunks_parsed' = Some(<<>>)
    /\ UNCHANGED <<patch, chunks, chunk_i, pos, pos_table,
                   parseVars, locVars, blockVars, scrapeVars, genVars, downVars, winVars, collectVars>>

\* lines 204-206: the hunks are split and parsed, then the table is built
ExtractHunks ==
    /\ pc = "extract_file"
    /\ patch # <<>>
    /\ pc' = "table"
    /\ hunks_parsed' = Some(keep_parsed(split_hunks(patch)))
    /\ UNCHANGED <<patch, chunks, chunk_i, pos, pos_table,
                   parseVars, locVars, blockVars, scrapeVars, genVars, downVars, winVars, collectVars>>

NextExtract == ExtractNoPatch \/ ExtractHunks

----------------------------------------------------------------------------
(* Properties of the position table *)

PLines == splitlines(patch)

IsHeaderLine(l) == startswith(l, <<"@", "@">>)

\* the physical body lines of the patch: the lines after the first header line
\* that are not header lines
BodyIdx ==
    { i \in 1..Len(PLines) :
        /\ ~IsHeaderLine(PLines[i])
        /\ \E j \in 1..(i - 1) : IsHeaderLine(PLines[j]) }

\* the running counter: the number of physical body lines up to line i
PosOf(i) == Cardinality({ j \in BodyIdx : j <= i })

HeaderOf(i) == Max({ j \in 1..i : IsHeaderLine(PLines[j]) })

\* the Added and Context lines under a header that matches the grammar
NumberedIdx ==
    { i \in BodyIdx : TagOf(PLines[i]) # "-" /\ HUNK_RE(strip(PLines[HeaderOf(i)])) # None }

NewOf(i) ==
    int(Val(HUNK_RE(strip(PLines[HeaderOf(i)]))).g3)
    + Cardinality({ j \in (HeaderOf(i) + 1)..(i - 1) : TagOf(PLines[j]) # "-" })

\* C7: the table maps a new line number n to the position of the first Added or
\* Context line numbered n, positions being one counter over every physical body
\* line of the patch (all hunks in order, header lines not counted).
C7_FirstLinePosition ==
    pc = "table_done" =>
        /\ DOMAIN pos_table = { NewOf(i) : i \in NumberedIdx }
        /\ \A i \in NumberedIdx :
              pos_table[NewOf(i)] = PosOf(Min({ k \in NumberedIdx : NewOf(k) = NewOf(i) }))

\* what the code keeps of C7: an entry once recorded is never overwritten
C7_NeverOverwritten ==
    [][\A n \in DOMAIN pos_table : n \in DOMAIN pos_table' /\ pos_table'[n] = pos_table[n]]_vars

Increasing(tbl) ==
    \A n1 \in DOMAIN tbl, n2 \in DOMAIN tbl : n1 < n2 => tbl[n1] < tbl[n2]

\* C8 as stated: in every table positions strictly increase with new line
\* numbers, for hunks in any order of declared starts, overlapping or not.
C8_StrictlyIncreasing == pc = "table_done" => Increasing(pos_table)

ChunkNewNos(k) ==
    IF parse_diff_hunk(chunks[k]) = None THEN {}
    ELSE NewNos(Val(parse_diff_hunk(chunks[k])))

\* the hunks of the patch are in ascending order and do not overlap
HunksAscending ==
    LET nos == [k \in 1..Len(chunks) |-> ChunkNewNos(k)]
    IN \A i \in 1..Len(chunks), j \in 1..Len(chunks) :
          i < j /\ nos[i] # {} /\ nos[j] # {} => Max(nos[i]) < Min(nos[j])

\* C8 amended: positions strictly increase with new line numbers when every new
\* line number of each hunk is greater than every new line number of the hunks
\* before it (hunks in ascending order, not overlapping).
C8_IncreasingWhenAscending ==
    pc \in {"table_loop", "table_done"} /\ HunksAscending => Increasing(pos_table)

\* a finished table of two ascending hunks, each with a numbered line
C8_Witness ==
    /\ pc = "table_done"
    /\ HunksAscending
    /\ Cardinality({ k \in 1..Len(chunks) : ChunkNewNos(k) # {} }) >= 2
    /\ Cardinality(DOMAIN pos_table) >= 2

----------------------------------------------------------------------------
(* collect_data.scrape_examples_from_single_pr *)

CONTEXT_RADIUS == 5

BotSuffix == <<"[", "b", "o", "t", "]">>
PySuffix == <<".", "p", "y">>

\* a user object is None or [type, login]
is_bot_type_only(user_obj) ==
    IF user_obj = None THEN TRUE
    ELSE Val(user_obj).type = "Bot"

is_bot(user_obj) ==
    IF user_obj = None THEN TRUE
    ELSE IF Val(user_obj).type = "Bot" THEN TRUE
    ELSE endswith(Val(user_obj).login, BotSuffix)

get_old_span_from_hunk(h) ==
    IF h = None THEN <<None, None>>
    ELSE LET old_nos == { Val(Val(h).lines[i].old) :
                            i \in { k \in 1..Len(Val(h).lines) :
                                      Val(h).lines[k].tag \in {" ", "-"}
                                      /\ Val(h).lines[k].old # None } }
             len1 == IF Val(h).old_len > 1 THEN Val(h).old_len ELSE 1
         IN IF old_nos # {} THEN <<Some(Min(old_nos)), Some(Max(old_nos))>>
            ELSE <<Some(Val(h).old_start), Some(Val(h).old_start + len1 - 1)>>

extract_window_snippet(lines, start_line, end_line, radius) ==
    IF lines = <<>> \/ start_line = None \/ end_line = None THEN None
    ELSE LET n == Len(lines)
             s == clamp_line(Val(start_line) - radius, 1, n)
             e == clamp_line(Val(end_line) + radius, 1, n)
         IN Some(join(SubSeq(lines, s, e)))

\* the filters of lines 234-249: the comment is kept
Kept(c, author) ==
    /\ c.in_reply_to_id = None
    /\ ~is_bot(c.user)
    /\ Some(Val(c.user).login) # author
    /\ c.path # None /\ Val(c.path) # <<>> /\ endswith(Val(c.path), PySuffix)
    /\ c.diff_hunk # None /\ Val(c.diff_hunk) # <<>>
    /\ c.body # None /\ strip(Val(c.body)) # <<>>

\* the first line of the diff hunk whose stripped text starts with @@, stripped
header_line_of(text) ==
    LET lines == splitlines(text)
        i == cd_header_idx(lines, 1)
    IN IF i = 0 THEN None ELSE Some(strip(lines[i]))

KeyOf_whole_hunk(c) == <<c.path, c.diff_hunk>>

KeyOf(c) == <<c.path, header_line_of(Val(c.diff_hunk))>>

\* an optional number is truthy when it is there and not 0
TruthyNo(o) == o # None /\ Val(o) # 0

\* lines 296-309: the context of an example, given the file at the base commit
\* (None when it cannot be fetched)
\* lines 303-309: the block when there is one, else the window
block_or_window(lines, span, block_snippet) ==
    IF block_snippet # None /\ Val(block_snippet) # <<>> THEN block_snippet
    ELSE extract_window_snippet(lines, span[1], span[2], CONTEXT_RADIUS)

context_for(span, file_lines) ==
    IF file_lines # None /\ Val(file_lines) # <<>>
       /\ TruthyNo(span[1]) /\ TruthyNo(span[2])
    THEN block_or_window(Val(file_lines), span,
                         extract_block_definition(Val(file_lines),
                                                  Some((Val(span[1]) + Val(span[2])) \div 2)))
    ELSE None

context_of(c, file_lines) ==
    context_for(get_old_span_from_hunk(cd_parse_diff_hunk(Val(c.diff_hunk))), file_lines)

example_of(c, file_lines) ==
    [file_path |-> Val(c.path),
     diff_hunk |-> Val(c.diff_hunk),
     context |-> context_of(c, file_lines),
     comment |-> strip(Val(c.body)),
     comment_author |-> Val(c.user).login,
     comment_url |-> IF c.id # 0 THEN Some(c.id) ELSE None]

Alice == <<"a", "l">>
Bob == <<"b", "o", "b">>
Human(login) == Some([type |-> "User", login |-> login])

HunkOne == <<"@", "@", " ", "-", "1", " ", "+", "1", " ", "@", "@", "\n", "+", "c">>
HunkOneLonger == <<"@", "@", " ", "-", "1", " ", "+", "1", " ", "@", "@", "\n", "+", "c", "\n", " ", "a">>
HunkNoOld == <<"@", "@", " ", "-", "0", ",", "0", " ", "+", "1", " ", "@", "@", "\n", "+", "c">>

HunkBadHeader == <<"@", "@", " ", "b", "a", "d", "\n", "+", "c">>

GoodComment(path, dh) ==
    [in_reply_to_id |-> None, user |-> Human(Bob), path |-> Some(path),
     diff_hunk |-> Some(dh), body |-> Some(<<" ", "o", "k", " ">>), id |-> 0]

\* comments the filters keep, two of them with the same (path, header) key,
\* one on a hunk with no old line and one on a hunk that does not parse
KeptPool ==
    { GoodComment(PathA, HunkOne), GoodComment(PathA, HunkOneLonger),
      GoodComment(PathB, HunkOne), GoodComment(PathA, HunkNoOld),
      GoodComment(PathB, HunkBadHeader) }

\* comments the filters drop, one for each filter, all on the key (a.py, HunkOne)
DroppedPool ==
    { [GoodComment(PathA, HunkOne) EXCEPT !.in_reply_to_id = Some(7)],
      [GoodComment(PathA, HunkOne) EXCEPT !.user = None],
      [GoodComment(PathA, HunkOne) EXCEPT !.user = Some([type |-> "Bot", login |-> <<"c", "i">>])],
      [GoodComment(PathA, HunkOne) EXCEPT !.user = Some([type |-> "User", login |-> <<"c", "i", "[", "b", "o", "t", "]">>])],
      [GoodComment(PathA, HunkOne) EXCEPT !.user = Human(Alice)],
      [GoodComment(PathA, HunkOne) EXCEPT !.path = None],
      [GoodComment(PathA, HunkOne) EXCEPT !.path = Some(<<"a", ".", "j", "s">>)],
      [GoodComment(PathA, HunkOne) EXCEPT !.diff_hunk = None],
      [GoodComment(PathA, HunkOne) EXCEPT !.body = Some(<<" ", " ">>)] }

MaxComments == 3
MaxNeeded == 2

\* GitHub gives every comment its own id
WithIds(cs) == [i \in 1..Len(cs) |-> [cs[i] EXCEPT !.id = i]]

\* the file at the base commit: not available, or three lines
FileContents == { None, Some(<<<<"d", "e", "f", " ", "f">>, <<" ", " ", "x">>, <<"y">>>>) }

InitScrape ==
    /\ pc = "scrape"
    /\ \E cs \in SeqsUpTo(KeptPool \cup DroppedPool, MaxComments) : review_comments = WithIds(cs)
    /\ pr_author = Some(Alice)
    /\ max_needed \in 1..MaxNeeded
    /\ filtered = <<>>
    /\ singletons = {}
    /\ emit_i = 0
    /\ out = <<>>
    /\ old_file_lines = None
    /\ IdleParse /\ IdlePos /\ IdleLoc /\ IdleBlock /\ IdleGen /\ IdleDown /\ IdleWin /\ IdleCollect

\* pr.get_review_comments() raises GithubException: return the empty list
ScrapeFetchFails ==
    /\ pc = "scrape"
    /\ pc' = "fetch_failed"
    /\ UNCHANGED <<scrapeVars, parseVars, posVars, locVars, blockVars, genVars, downVars, winVars,
                   collectVars>>

\* 1) the per-comment filters
ScrapeFilter ==
    /\ pc = "scrape"
    /\ pc' = "group"
    /\ filtered' = SelectSeq(review_comments, LAMBDA c : Kept(c, pr_author))
    /\ UNCHANGED <<review_comments, pr_author, max_needed, singletons, emit_i, out,
                   old_file_lines,
                   parseVars, posVars, locVars, blockVars, genVars, downVars, winVars, collectVars>>

\* 2) and 3) grouping by (path, header) and the keys of the groups of one
ScrapeGroup ==
    /\ pc = "group"
    /\ pc' = "emit"
    /\ singletons' = { KeyOf(filtered[i]) : i \in
                         { k \in 1..Len(filtered) :
                             Cardinality({ j \in 1..Len(filtered) :
                                             KeyOf(filtered[j]) = KeyOf(filtered[k]) }) = 1 } }
    /\ UNCHANGED <<review_comments, pr_author, max_needed, filtered, emit_i, out,
                   old_file_lines,
                   parseVars, posVars, locVars, blockVars, genVars, downVars, winVars, collectVars>>

\* out.append(example) with the example put in front
out_append_front(examples, example) == <<example>> \o examples

\* line 321: out.append(example)
out_append(examples, example) == Append(examples, example)

EmitRuns ==
    /\ pc = "emit"
    /\ emit_i < Len(filtered)
    /\ Len(out) < max_needed

\* 4) a kept comment whose key is not a singleton: `continue`
EmitSkip ==
    /\ EmitRuns
    /\ KeyOf(filtered[emit_i + 1]) \notin singletons
    /\ emit_i' = emit_i + 1
    /\ UNCHANGED <<pc, review_comments, pr_author, max_needed, filtered, singletons, out,
                   old_file_lines,
                   parseVars, posVars, locVars, blockVars, genVars, downVars, winVars, collectVars>>

\* 4) a kept comment on a singleton key: one example, with the context the
\* file at the base commit gives
EmitExample(content) ==
    /\ EmitRuns
    /\ KeyOf(filtered[emit_i + 1]) \in singletons
    /\ old_file_lines' = content
    /\ out' = out_append(out, example_of(filtered[emit_i + 1], content))
    /\ emit_i' = emit_i + 1
    /\ UNCHANGED <<pc, review_comments, pr_author, max_needed, filtered, singletons,
                   parseVars, posVars, locVars, blockVars, genVars, downVars, winVars, collectVars>>

ScrapeReturn ==
    /\ pc = "emit"
    /\ emit_i >= Len(filtered) \/ Len(out) >= max_needed
    /\ pc' = "scraped"
    /\ UNCHANGED <<scrapeVars, parseVars, posVars, locVars, blockVars, genVars, downVars, winVars,
                   collectVars>>

NextScrape ==
    \/ ScrapeFetchFails
    \/ ScrapeFilter
    \/ ScrapeGroup
    \/ EmitSkip
    \/ \E content \in FileContents : EmitExample(content)
    \/ ScrapeReturn

SpecScrape == InitScrape /\ [][NextScrape]_vars

----------------------------------------------------------------------------
(* Properties of the scraped examples *)

\* the comment an example was made from: comment_url carries the comment id
SourceOf(e) == review_comments[Val(e.comment_url)]

InOut(c) == \E k \in 1..Len(out) : out[k].comment_url = Some(c.id)

IsReply(c) == c.in_reply_to_id # None
ByBot(c) ==
    \/ c.user = None
    \/ Val(c.user).type = "Bot"
    \/ endswith(Val(c.user).login, <<"[", "b", "o", "t", "]">>)
ByPrAuthor(c) == c.user # None /\ Some(Val(c.user).login) = pr_author
NoPyPath(c) == c.path = None \/ ~endswith(Val(c.path), <<".", "p", "y">>)
NoDiffHunk(c) == c.diff_hunk = None
EmptyBody(c) == c.body = None \/ strip(Val(c.body)) = <<>>

Rejected(c) ==
    IsReply(c) \/ ByBot(c) \/ ByPrAuthor(c) \/ NoPyPath(c) \/ NoDiffHunk(c) \/ EmptyBody(c)

\* the first line of a text that starts with @@ once stripped, stripped
FirstHeader(text) ==
    LET ls == splitlines(text)
        idxs == { i \in 1..Len(ls) : startswith(strip(ls[i]), <<"@", "@">>) }
    IN IF idxs = {} THEN None ELSE Some(strip(ls[Min(idxs)]))

GroupKey(c) == <<c.path, FirstHeader(Val(c.diff_hunk))>>

\* indices of the comments that survive the filters
Survivors == { i \in 1..Len(review_comments) : ~Rejected(review_comments[i]) }

SharesKey(i) ==
    \E j \in Survivors :
        j # i /\ GroupKey(review_comments[j]) = GroupKey(review_comments[i])

\* the survivors with a key of their own, in comment order
RECURSIVE UniqueFrom(_)
UniqueFrom(i) ==
    IF i > Len(review_comments) THEN <<>>
    ELSE IF i \in Survivors /\ ~SharesKey(i) THEN <<i>> \o UniqueFrom(i + 1)
    ELSE UniqueFrom(i + 1)

\* C9 as stated: when the function has returned its examples, no survivor
\* that shares its (path, header) key with another survivor is in the output,
\* and every survivor with a key of its own is in the output.
C9_SingletonsRetained ==
    pc = "scraped" =>
        \A i \in Survivors :
            IF SharesKey(i) THEN ~InOut(review_comments[i])
            ELSE InOut(review_comments[i])

\* C9 amended: when the function has returned its examples, the output is made
\* from the first max_needed survivors with a key of their own, in comment
\* order, and from nothing else; a survivor that shares its key with another
\* survivor is never in the output, and rejected comments do not count.
C9_SingletonsUpToCap ==
    pc = "scraped" =>
        /\ [k \in 1..Len(out) |-> Val(out[k].comment_url)]
              = Prefix(UniqueFrom(1), max_needed)
        /\ \A i \in Survivors : SharesKey(i) => ~InOut(review_comments[i])

\* two survivors share a key and are left out, and a survivor with a key of
\* its own is in the output
C9_Witness ==
    /\ pc = "scraped"
    /\ \E i \in Survivors : SharesKey(i) /\ ~InOut(review_comments[i])
    /\ \E i \in Survivors : ~SharesKey(i) /\ InOut(review_comments[i])

\* a survivor is in the output although a rejected comment has the same key
C9_WitnessRejected ==
    /\ pc = "scraped"
    /\ \E i \in Survivors, j \in 1..Len(review_comments) :
          /\ j \notin Survivors
          /\ review_comments[j].diff_hunk # None
          /\ GroupKey(review_comments[j]) = GroupKey(review_comments[i])
          /\ InOut(review_comments[i])

\* a survivor with a key of its own is left out because max_needed examples
\* were already there
C9_WitnessCap ==
    /\ pc = "scraped"
    /\ \E i \in Survivors : ~SharesKey(i) /\ ~InOut(review_comments[i])

\* C10: no example in the output comes from a reply, from a bot (no user, type
\* Bot, login ending in [bot]), from the pull request's author, from a comment
\* without a path ending in .py, without a diff hunk, or with a body that is
\* empty after trimming.
C10_NoRejectedSource ==
    \A k \in 1..Len(out) : ~Rejected(SourceOf(out[k]))

\* examples were emitted from a list that had a rejected comment in it
C10_Witness ==
    /\ pc = "scraped"
    /\ out # <<>>
    /\ \E i \in 1..Len(review_comments) : Rejected(review_comments[i])

\* C11: the examples are in the order of their source comments: the ids of
\* the comments they come from increase along the output, so the output is an
\* order-preserving subsequence of the comment list.
C11_OrderPreserved ==
    \A k \in 1..Len(out), l \in 1..Len(out) :
        k < l => Val(out[k].comment_url) < Val(out[l].comment_url)

\* two examples were emitted with a comment between their sources left out
C11_Witness ==
    /\ pc = "scraped"
    /\ Len(out) = 2
    /\ Val(out[2].comment_url) > Val(out[1].comment_url) + 1

----------------------------------------------------------------------------
(* review_generator.parse_model_json_strict on its own *)

MaxPieces == 3

\* pieces of model output: brackets, a comma, a number, objects with a known
\* type, an unknown type, a type that is no string, no type, the type key
\* run into unquoted text, a code fence and prose
TextPieces ==
    { <<"[">>,
      <<"]">>,
      <<",">>,
      <<"1">>,
      <<"{", "}">>,
      <<"{", "\"", "t", "y", "p", "e", "\"", ":", "\"", "s", "t", "y", "l", "e", "\"", "}">>,
      <<"{", "\"", "t", "y", "p", "e", "\"", ":", "\"", "n", "o", "n", "s", "e", "n", "s", "e", "\"", ",", "\"", "l", "i", "n", "e", "\"", ":", "1", "}">>,
      <<"{", "\"", "t", "y", "p", "e", "\"", ":", "7", ",", "\"", "c", "o", "m", "m", "e", "n", "t", "\"", ":", "\"", "c", "\"", "}">>,
      <<"{", "\"", "t", "y", "p", "e", " ", "F", "O", "O", ",", " ", "\"", "c", "o", "m", "m", "e", "n", "t", "\"", ":", "\"", "x", "\"", "}">>,
      <<Grave, Grave, Grave>>,
      <<" ", "s", "o">> }

RECURSIVE Concat(_)
Concat(ps) == IF ps = <<>> THEN <<>> ELSE ps[1] \o Concat(Tail(ps))

MaxObjects == 2

\* objects whose type key runs into unquoted text (word), one of them with a
\* closing brace inside its comment
Malformed ==
    { [text |-> <<"{", "\"", "t", "y", "p", "e", " ", "F", "O", "O", ",", " ", "\"", "c", "o", "m", "m", "e", "n", "t", "\"", ":", "\"", "x", "\"", "}">>, word |-> <<"F", "O", "O">>],
      [text |-> <<"{", "\"", "l", "i", "n", "e", "\"", ":", "1", ",", "\"", "t", "y", "p", "e", " ", "B", "A", "R", "}">>, word |-> <<"B", "A", "R">>],
      [text |-> <<"{", "\"", "t", "y", "p", "e", " ", "F", "O", "O", ",", " ", "\"", "c", "o", "m", "m", "e", "n", "t", "\"", ":", "\"", "a", " ", "}", " ", "b", "\"", "}">>, word |-> <<"F", "O", "O">>] }

\* objects that load: a known type, no type, an unknown type, a type that is
\* no string, a known type with blanks around it
WellFormed ==
    { <<"{", "\"", "t", "y", "p", "e", "\"", ":", "\"", "s", "t", "y", "l", "e", "\"", "}">>,
      <<"{", "\"", "l", "i", "n", "e", "\"", ":", "2", "}">>,
      <<"{", "\"", "t", "y", "p", "e", "\"", ":", "\"", "n", "o", "n", "s", "e", "n", "s", "e", "\"", ",", "\"", "l", "i", "n", "e", "\"", ":", "1", "}">>,
      <<"{", "\"", "t", "y", "p", "e", "\"", ":", "7", ",", "\"", "c", "o", "m", "m", "e", "n", "t", "\"", ":", "\"", "c", "\"", "}">>,
      <<"{", "\"", "t", "y", "p", "e", "\"", ":", "\"", " ", "L", "o", "g", "i", "c", " ", "\"", "}">> }

RECURSIVE JoinComma(_)
JoinComma(objs) ==
    IF objs = <<>> THEN <<>>
    ELSE IF Len(objs) = 1 THEN objs[1]
    ELSE objs[1] \o <<",">> \o JoinComma(Tail(objs))

ArrayText(objs) == <<"[">> \o JoinComma(objs) \o <<"]">>

ArrayObjects == WellFormed \cup { m.text : m \in Malformed }

ArrayTexts == { ArrayText(objs) : objs \in SeqsUpTo(ArrayObjects, MaxObjects) }

\* ask_ollama returns the response stripped
RecoverTexts ==
    ModelTexts \cup ArrayTexts
    \cup { strip(Concat(ps)) : ps \in SeqsUpTo(TextPieces, MaxPieces) }

InitRecover ==
    /\ pc = "recover"
    /\ raw_text \in RecoverTexts
    /\ recovered = <<"pending">>
    /\ hunks = Idle /\ args_max = Idle /\ h_idx = Idle /\ processed = Idle
    /\ written = Idle /\ fout = Idle /\ escaped = Idle
    /\ IdleParse /\ IdlePos /\ IdleLoc /\ IdleBlock /\ IdleScrape /\ IdleDown /\ IdleWin /\ IdleCollect

ParseModelJsonStrict ==
    /\ pc = "recover"
    /\ pc' = "recovered"
    /\ recovered' = <<"returned", parse_model_json_strict(raw_text)>>
    /\ UNCHANGED <<raw_text, hunks, args_max, h_idx, processed, written, fout, escaped,
                   parseVars, posVars, locVars, blockVars, scrapeVars, downVars, winVars, collectVars>>

NextRecover == ParseModelJsonStrict

SpecRecover == InitRecover /\ [][NextRecover]_vars

----------------------------------------------------------------------------
(* Properties of the recovery *)

Recovered == recovered[2]

\* the loaded value d is a list of objects
ListOfObjects(d) ==
    d # None /\ Val(d).t = "list" /\ \A i \in 1..Len(Val(d).v) : Val(d).v[i].t = "obj"

\* the three texts the stages load, in order
StageTexts(raw) ==
    <<raw,
      isolate_first_json_array(strip_code_fences(raw)),
      fix_type_concat_bug(isolate_first_json_array(strip_code_fences(raw)))>>

\* the stages at which the text loads as a list of objects
StagesOk(raw) == { k \in 1..3 : ListOfObjects(json_loads(StageTexts(raw)[k])) }

\* C12: for every text the recovery returns a pair (comments, parse_fail) and
\* does not raise; parse_fail is true exactly when no stage loads a list of
\* objects, and then the comment list is empty.
C12_Total ==
    pc = "recovered" =>
        /\ recovered[1] = "returned"
        /\ Recovered.parse_fail \in BOOLEAN
        /\ Recovered.parse_fail <=> StagesOk(raw_text) = {}
        /\ Recovered.parse_fail => Recovered.comments = <<>>

\* a text that loads as a list with an element that is no object, at every
\* stage, came back as a failure
C12_Witness ==
    /\ pc = "recovered"
    /\ json_loads(raw_text) # None
    /\ Val(json_loads(raw_text)).t = "list"
    /\ \E i \in 1..Len(Val(json_loads(raw_text)).v) : Val(json_loads(raw_text)).v[i].t # "obj"
    /\ Recovered.parse_fail

\* a text that loads as a value that is no list came back as a failure
C12_WitnessNotList ==
    /\ pc = "recovered"
    /\ json_loads(raw_text) # None
    /\ Val(json_loads(raw_text)).t # "list"
    /\ Recovered.parse_fail

IsMalformed(obj) == \E m \in Malformed : m.text = obj

WordOf(obj) == (CHOOSE m \in Malformed : m.text = obj).word

\* a closing brace before the one that ends the object
InnerBrace(obj) == \E i \in 1..(Len(obj) - 1) : obj[i] = "}"

\* the recovery of the array of objs: one object per object of the array, and
\* for each malformed one the type OTHER and a comment that holds its word
RecoveredAll(objs) ==
    /\ ~Recovered.parse_fail
    /\ Len(Recovered.comments) = Len(objs)
    /\ \A i \in 1..Len(objs) :
          IsMalformed(objs[i]) =>
              /\ Recovered.comments[i].type = OTHER_TYPE
              /\ Recovered.comments[i].comment.t = "str"
              /\ contains(Recovered.comments[i].comment.v, WordOf(objs[i]))

\* C13 as stated: an array with an object whose type key runs into unquoted
\* text is recovered, with one object per malformed object, type OTHER and
\* the unquoted text in the comment.
C13_MalformedRecovered ==
    pc = "recovered" =>
        \A objs \in SeqsUpTo(ArrayObjects, MaxObjects) :
            (raw_text = ArrayText(objs) /\ \E i \in 1..Len(objs) : IsMalformed(objs[i]))
                => RecoveredAll(objs)

\* C13 amended: the same, for arrays whose malformed objects hold no closing
\* brace before the one that ends them (the repair ends the object at the
\* first closing brace after the type key).
C13_MalformedWithoutInnerBrace ==
    pc = "recovered" =>
        \A objs \in SeqsUpTo(ArrayObjects, MaxObjects) :
            (/\ raw_text = ArrayText(objs)
             /\ \E i \in 1..Len(objs) : IsMalformed(objs[i])
             /\ \A i \in 1..Len(objs) : IsMalformed(objs[i]) => ~InnerBrace(objs[i]))
                => RecoveredAll(objs)

\* an array of two different malformed objects was recovered
C13_Witness ==
    /\ pc = "recovered"
    /\ \E objs \in SeqsUpTo(ArrayObjects, MaxObjects) :
          /\ raw_text = ArrayText(objs)
          /\ Len(objs) = 2
          /\ IsMalformed(objs[1]) /\ IsMalformed(objs[2]) /\ objs[1] # objs[2]
          /\ ~InnerBrace(objs[1]) /\ ~InnerBrace(objs[2])
    /\ ~Recovered.parse_fail
    /\ Len(Recovered.comments) = 2

----------------------------------------------------------------------------
(* The recovery and the generator together *)

SpecReview == (InitGen \/ InitRecover) /\ [][NextGen \/ NextRecover]_vars

SixTypes ==
    { <<"S", "T", "Y", "L", "E">>, <<"L", "O", "G", "I", "C">>, <<"D", "O", "C", "U", "M", "E", "N", "T", "A", "T", "I", "O", "N">>, <<"S", "E", "C", "U", "R", "I", "T", "Y">>, <<"P", "E", "R", "F", "O", "R", "M", "A", "N", "C", "E">>, <<"O", "T", "H", "E", "R">> }

TypeText == <<"t", "y", "p", "e">>

\* the value the first successful stage loaded
LoadedList(raw) == Val(json_loads(StageTexts(raw)[Min(StagesOk(raw))])).v

\* the category of a loaded object when its type is upper-cased as it is
UpperCased(o) ==
    IF TypeText \in DOMAIN o.v /\ o.v[TypeText].t = "str" /\ upper(o.v[TypeText].v) \in SixTypes
    THEN upper(o.v[TypeText].v) ELSE OTHER_TYPE

\* the category of a loaded object when its type is trimmed and upper-cased
TrimmedUpperCased(o) ==
    IF TypeText \in DOMAIN o.v /\ o.v[TypeText].t = "str"
       /\ upper(strip(o.v[TypeText].v)) \in SixTypes
    THEN upper(strip(o.v[TypeText].v)) ELSE OTHER_TYPE

\* every row written for a recovered comment has one of the six categories
RowTypesAllowed ==
    pc \in {"gen", "done", "crashed"} =>
        \A k \in 1..Len(fout) : ~fout[k].parse_fail => fout[k].generated_type \in SixTypes

\* C14 as stated: every object of a successful recovery has one of the six
\* types, the upper-cased type string when that is one of the six and OTHER
\* for any other string, a non-string or a missing type; the category of
\* every generated row is one of the six.
C14_UpperCasedTypes ==
    /\ (pc = "recovered" /\ ~Recovered.parse_fail) =>
          \A i \in 1..Len(Recovered.comments) :
              /\ Recovered.comments[i].type \in SixTypes
              /\ Recovered.comments[i].type = UpperCased(LoadedList(raw_text)[i])
    /\ RowTypesAllowed

\* C14 amended: the same, with the type string trimmed of surrounding
\* whitespace before it is upper-cased.
C14_TrimmedUpperCasedTypes ==
    /\ (pc = "recovered" /\ ~Recovered.parse_fail) =>
          \A i \in 1..Len(Recovered.comments) :
              /\ Recovered.comments[i].type \in SixTypes
              /\ Recovered.comments[i].type = TrimmedUpperCased(LoadedList(raw_text)[i])
    /\ RowTypesAllowed

\* a recovery gave STYLE for "style" next to OTHER for "nonsense"
C14_Witness ==
    /\ pc = "recovered"
    /\ ~Recovered.parse_fail
    /\ Len(Recovered.comments) = 2
    /\ Recovered.comments[1].type = <<"S", "T", "Y", "L", "E">>
    /\ Recovered.comments[2].type = OTHER_TYPE
    /\ TypeText \in DOMAIN LoadedList(raw_text)[1].v
    /\ LoadedList(raw_text)[1].v[TypeText].t = "str"
    /\ LoadedList(raw_text)[1].v[TypeText].v = <<"s", "t", "y", "l", "e">>
    /\ TypeText \in DOMAIN LoadedList(raw_text)[2].v
    /\ LoadedList(raw_text)[2].v[TypeText].t = "str"
    /\ LoadedList(raw_text)[2].v[TypeText].v = <<"n", "o", "n", "s", "e", "n", "s", "e">>

\* a row with a category was written
C14_WitnessRow ==
    /\ pc \in {"gen", "done", "crashed"}
    /\ \E k \in 1..Len(fout) : ~fout[k].parse_fail /\ fout[k].generated_type \in SixTypes

----------------------------------------------------------------------------
(* Units whose diff text does not parse: the collector and the extractor *)

SpecUnits ==
    (InitScrape \/ InitExtract \/ InitTable) /\ [][NextScrape \/ NextExtract \/ NextTable]_vars

\* the chunks of a patch that parse, by index
ParseableChunks(p) ==
    { k \in 1..Len(split_hunks(p)) : parse_diff_hunk(split_hunks(p)[k]) # None }

\* number of parseable chunks among the first k
ParseableUpTo(p, k) == Cardinality({ j \in ParseableChunks(p) : j <= k })

\* the extractor's list holds the parse of each parseable chunk, in order, and
\* nothing else
ExtractorSkips ==
    pc \in {"table", "table_loop", "table_done"} /\ hunks_parsed # None =>
        /\ Len(Val(hunks_parsed)) = Cardinality(ParseableChunks(patch))
        /\ \A k \in ParseableChunks(patch) :
              Val(hunks_parsed)[ParseableUpTo(patch, k)]
                  = Val(parse_diff_hunk(split_hunks(patch)[k]))

\* no example of the collector is on a diff hunk that does not parse
CollectorSkips ==
    pc \in {"emit", "scraped"} =>
        \A i \in 1..Len(out) : cd_parse_diff_hunk(out[i].diff_hunk) # None

\* C17: a unit whose diff text does not parse is skipped and the next unit is
\* processed: the collector emits no example for a comment whose diff hunk
\* parse_diff_hunk rejects, and the extractor emits no parsed hunk for a chunk
\* of the patch it rejects.
C17_UnparseableSkipped == CollectorSkips /\ ExtractorSkips

\* what the collector does with such a comment: an example without context
C17_UnparseableEmittedWithoutContext ==
    pc \in {"emit", "scraped"} =>
        \A i \in 1..Len(out) :
            cd_parse_diff_hunk(out[i].diff_hunk) = None => out[i].context = None

\* the collector has emitted an example on a hunk that does not parse, after
\* fetching a file with content
C17_WitnessCollector ==
    /\ pc = "scraped"
    /\ \E i \in 1..Len(out) :
          /\ out[i].diff_hunk = HunkBadHeader
          /\ cd_parse_diff_hunk(out[i].diff_hunk) = None

\* the extractor has dropped a chunk and kept a later one
C17_WitnessExtractor ==
    /\ pc = "table_done"
    /\ hunks_parsed # None
    /\ Len(split_hunks(patch)) >= 2
    /\ parse_diff_hunk(split_hunks(patch)[1]) = None
    /\ Len(Val(hunks_parsed)) >= 1

----------------------------------------------------------------------------
(* comment_formatter.format_comments and post_comments_github.main *)

MaxRows == 2

\* hunks of the rows: with Added lines; without, one new line; without, no
\* new line; with neither an old nor a new line
DownHunks ==
    { Val(parse_diff_hunk(ExampleText)),
      Val(parse_diff_hunk(<<"@", "@", " ", "-", "5", ",", "2", " ", "+", "7", " ", "@", "@", "\n", "-", "r">>)),
      Val(parse_diff_hunk(<<"@", "@", " ", "-", "3", " ", "+", "2", ",", "0", " ", "@", "@", "\n", "-", "r">>)),
      Val(parse_diff_hunk(<<"@", "@", " ", "-", "0", ",", "0", " ", "+", "0", ",", "0", " ", "@", "@">>)) }

DownEntries == { [file_path |-> PathA, hunk_index |-> 0, hunk |-> h] : h \in DownHunks }

\* the comment objects the generator picks: a line or none, a comment that is
\* a string, null or a number
DownLineObjs ==
    { [line |-> l, type |-> OTHER_TYPE, comment |-> c] :
        l \in { JInt(1), JNull }, c \in { JStr(<<" ", "f", "i", "x", " ">>), JNull, JInt(5) } }

\* a row of the generator as json.loads gives it back: r.get(key) for each key
\* the two scripts read (a fail row has no hunk keys, review_generator.py:338-367)
LoadedRow(row, entry) ==
    [parse_fail |-> row.parse_fail,
     file_path |-> Some(row.file_path),
     hunk_header |-> IF row.parse_fail THEN None ELSE Some(entry.hunk.header),
     new_start |-> IF row.parse_fail THEN None ELSE Some(entry.hunk.new_start),
     new_len |-> IF row.parse_fail THEN None ELSE Some(entry.hunk.new_len),
     old_start |-> IF row.parse_fail THEN None ELSE Some(entry.hunk.old_start),
     old_len |-> IF row.parse_fail THEN None ELSE Some(entry.hunk.old_len),
     generated_line_abs_new |-> row.generated_line_abs_new,
     generated_comment |-> row.generated_comment]

\* what a line of the reviews file loads to: nothing (a blank line or a line
\* json.loads rejects) or a row the generator wrote
ReviewLines ==
    { None }
    \cup { Some(LoadedRow(process_diff_line(lo, e), e)) : lo \in DownLineObjs, e \in DownEntries }
    \cup { Some(LoadedRow(FailRow(e, None, None), e)) : e \in DownEntries }

\* load_jsonl, and lines 35-42 of main: the lines that load
RECURSIVE load_rows(_)
load_rows(lines) ==
    IF lines = <<>> THEN <<>>
    ELSE (IF lines[1] = None THEN <<>> ELSE <<Val(lines[1])>>) \o load_rows(Tail(lines))

TruthyText(o) == o # None /\ Val(o) # <<>>

\* format_comments, lines 28-34: the record is passed over
format_skips(rec) ==
    \/ rec.parse_fail
    \/ ~(TruthyText(rec.file_path) /\ TruthyNo(rec.generated_line_abs_new)
         /\ Truthy(rec.generated_comment))

\* comment.strip() on a comment that is no string
format_raises(rec) == ~format_skips(rec) /\ rec.generated_comment.t # "str"

RECURSIVE format_comments(_)
format_comments(records) ==
    IF records = <<>> THEN <<>>
    ELSE (IF format_skips(records[1]) THEN <<>>
          ELSE <<[path |-> Val(records[1].file_path),
                  line |-> Val(records[1].generated_line_abs_new),
                  body |-> strip(records[1].generated_comment.v),
                  side |-> "RIGHT"]>>)
         \o format_comments(Tail(records))

\* lines 43-48 of main: the row is kept
post_keeps(r) == ~r.parse_fail /\ TruthyText(r.file_path) /\ TruthyText(r.hunk_header)

LooksGoodToMe == JStr(<<"L", "o", "o", "k", "s", " ", "g", "o", "o", "d", " ", "t", "o", " ", "m", "e", ".">>)

\* lines 58-99 of main: the comment for one row, None when it has no span
payload_of(r) ==
    LET body == IF Truthy(r.generated_comment) THEN r.generated_comment ELSE LooksGoodToMe
    IN IF r.new_start # None /\ r.new_len # None /\ Val(r.new_len) > 0
       THEN Some([path |-> Val(r.file_path), side |-> "RIGHT", body |-> body,
                  start_line |-> IF Val(r.new_len) = 1 THEN None ELSE r.new_start,
                  line |-> Val(r.new_start) + Val(r.new_len) - 1])
       ELSE IF r.old_start # None /\ r.old_len # None /\ Val(r.old_len) > 0
       THEN Some([path |-> Val(r.file_path), side |-> "LEFT", body |-> body,
                  start_line |-> IF Val(r.old_len) = 1 THEN None ELSE r.old_start,
                  line |-> Val(r.old_start) + Val(r.old_len) - 1])
       ELSE None

RECURSIVE payloads(_)
payloads(rows) ==
    IF rows = <<>> THEN <<>>
    ELSE (IF payload_of(rows[1]) = None THEN <<>> ELSE <<Val(payload_of(rows[1]))>>)
         \o payloads(Tail(rows))

\* the comments main builds from the lines of the file
comments_of(lines) == payloads(SelectSeq(load_rows(lines), post_keeps))

InitFormat ==
    /\ pc = "format"
    /\ review_rows \in SeqsUpTo(ReviewLines, MaxRows)
    /\ formatted = <<>>
    /\ comments_payload = <<>>
    /\ IdleParse /\ IdlePos /\ IdleLoc /\ IdleBlock /\ IdleScrape /\ IdleGen /\ IdleWin /\ IdleCollect

FormatComments ==
    /\ pc = "format"
    /\ \A i \in 1..Len(load_rows(review_rows)) : ~format_raises(load_rows(review_rows)[i])
    /\ pc' = "formatted"
    /\ formatted' = format_comments(load_rows(review_rows))
    /\ UNCHANGED <<review_rows, comments_payload,
                   parseVars, posVars, locVars, blockVars, scrapeVars, genVars, winVars, collectVars>>

\* AttributeError leaves format_comments: nothing is written
FormatCommentsRaises ==
    /\ pc = "format"
    /\ \E i \in 1..Len(load_rows(review_rows)) : format_raises(load_rows(review_rows)[i])
    /\ pc' = "format_crashed"
    /\ UNCHANGED <<downVars, parseVars, posVars, locVars, blockVars, scrapeVars, genVars, winVars,
                   collectVars>>

NextFormat == FormatComments \/ FormatCommentsRaises

InitPost ==
    /\ pc = "post"
    /\ review_rows \in SeqsUpTo(ReviewLines, MaxRows)
    /\ formatted = <<>>
    /\ comments_payload = <<>>
    /\ IdleParse /\ IdlePos /\ IdleLoc /\ IdleBlock /\ IdleScrape /\ IdleGen /\ IdleWin /\ IdleCollect

\* lines 50-52: no row is kept
PostNothing ==
    /\ pc = "post"
    /\ SelectSeq(load_rows(review_rows), post_keeps) = <<>>
    /\ pc' = "nothing_to_post"
    /\ UNCHANGED <<downVars, parseVars, posVars, locVars, blockVars, scrapeVars, genVars, winVars,
                   collectVars>>

\* lines 101-103: rows were kept and none has a span
PostNoComments ==
    /\ pc = "post"
    /\ SelectSeq(load_rows(review_rows), post_keeps) # <<>>
    /\ comments_of(review_rows) = <<>>
    /\ pc' = "no_comments"
    /\ UNCHANGED <<downVars, parseVars, posVars, locVars, blockVars, scrapeVars, genVars, winVars,
                   collectVars>>

\* lines 105-122: the review is posted, and GitHub creates it or answers with
\* another status
PostReview(created) ==
    /\ pc = "post"
    /\ comments_of(review_rows) # <<>>
    /\ pc' = IF created THEN "posted" ELSE "post_failed"
    /\ comments_payload' = comments_of(review_rows)
    /\ UNCHANGED <<review_rows, formatted,
                   parseVars, posVars, locVars, blockVars, scrapeVars, genVars, winVars, collectVars>>

NextPost == PostNothing \/ PostNoComments \/ (\E created \in BOOLEAN : PostReview(created))

SpecDownstream == (InitFormat \/ InitPost) /\ [][NextFormat \/ NextPost]_vars

----------------------------------------------------------------------------
(* Properties of the downstream scripts *)

\* the line loads to a row that is no parse_fail row and has a resolved line
HasResolvedLine(l) ==
    l # None /\ ~Val(l).parse_fail /\ Val(l).generated_line_abs_new # None

\* the line loads to a row that is no parse_fail row
NotParseFail(l) == l # None /\ ~Val(l).parse_fail

PostEnded == pc \in {"posted", "post_failed"}

\* the formatter's comments are those of the rows with a resolved line alone
FormatterNeverAnchors ==
    pc = "formatted" =>
        formatted = format_comments(load_rows(SelectSeq(review_rows, HasResolvedLine)))

\* the poster's comments are those of the rows with a resolved line alone
PosterNeverAnchors ==
    PostEnded => comments_payload = comments_of(SelectSeq(review_rows, HasResolvedLine))

\* C18: no downstream stage anchors a comment for a row whose resolved line
\* is null or for a parse_fail row: the comments format_comments returns and
\* the comments the posting script sends are those made from the rows with a
\* resolved line that are no parse_fail rows, and from no other row.
C18_NullLineNeverAnchored == FormatterNeverAnchors /\ PosterNeverAnchors

\* the part of C18 both scripts keep: no comment is made from a parse_fail row
C18_ParseFailNeverAnchored ==
    /\ pc = "formatted" =>
          formatted = format_comments(load_rows(SelectSeq(review_rows, NotParseFail)))
    /\ PostEnded => comments_payload = comments_of(SelectSeq(review_rows, NotParseFail))

\* the posting script has sent a comment for a row whose resolved line is null
C18_WitnessPosted ==
    /\ pc = "posted"
    /\ Len(review_rows) = 1
    /\ review_rows[1] # None
    /\ ~Val(review_rows[1]).parse_fail
    /\ Val(review_rows[1]).generated_line_abs_new = None
    /\ Len(comments_payload) = 1

\* the formatter has passed over a row with a null line and kept another
C18_WitnessFormatted ==
    /\ pc = "formatted"
    /\ Len(review_rows) = 2
    /\ review_rows[1] # None /\ review_rows[2] # None
    /\ Val(review_rows[1]).generated_line_abs_new = None
    /\ Len(formatted) = 1

----------------------------------------------------------------------------
(* The context of an example when the base file was retrieved *)

Retrieved(content) == content # None /\ Val(content) # <<>>

\* the example the step has appended
Emitted(examples) == examples[Len(examples)]

\* the old span of the example's diff hunk
SpanOf(e) == get_old_span_from_hunk(cd_parse_diff_hunk(e.diff_hunk))

\* the example's context is the block around the middle of the span when
\* there is one, and else the window around the span
BlockOrWindow(e, lines) ==
    /\ e.context # None
    /\ SpanOf(e)[1] # None /\ SpanOf(e)[2] # None
    /\ LET anchor == Some((Val(SpanOf(e)[1]) + Val(SpanOf(e)[2])) \div 2)
       IN IF extract_block_definition(lines, anchor) # None
          THEN e.context = extract_block_definition(lines, anchor)
          ELSE e.context
                 = extract_window_snippet(lines, SpanOf(e)[1], SpanOf(e)[2], CONTEXT_RADIUS)

\* C19: whenever the file at the base commit was retrieved and is not empty,
\* the context of the example emitted is not null: it is the structural block
\* if extract_block_definition finds one and the window snippet otherwise, for
\* every diff hunk, hunks whose old span starts at line 0 and hunks that do
\* not parse included.
C19_ContextUnlessUnavailable ==
    pc \in {"emit", "scraped"} /\ out # <<>> /\ Retrieved(old_file_lines)
        => BlockOrWindow(Emitted(out), Val(old_file_lines))

\* what the code keeps: with the file retrieved and not empty, the context is
\* the block or the window when the hunk parses and its old span starts after
\* line 0, and null otherwise
C19_ContextUnlessNoSpan ==
    pc \in {"emit", "scraped"} /\ out # <<>> /\ Retrieved(old_file_lines)
        => IF TruthyNo(SpanOf(Emitted(out))[1]) /\ TruthyNo(SpanOf(Emitted(out))[2])
           THEN BlockOrWindow(Emitted(out), Val(old_file_lines))
           ELSE Emitted(out).context = None

\* an example on a hunk whose old span starts at line 0 has no context,
\* with the file retrieved
C19_WitnessNoOld ==
    /\ pc = "scraped"
    /\ out # <<>>
    /\ Retrieved(old_file_lines)
    /\ Emitted(out).diff_hunk = HunkNoOld
    /\ Emitted(out).context = None

\* an example has the block as its context
C19_WitnessBlock ==
    /\ pc = "scraped"
    /\ \E i \in 1..Len(out) : out[i].diff_hunk = HunkOne /\ out[i].context # None

----------------------------------------------------------------------------
(* Definitions longer than the limit: the block and the caller's fallback *)

\* a hunk whose header gives the old span 6..295 and whose body has no old line
HunkWide == <<"@", "@", " ", "-", "6", ",", "2", "9", "0", " ", "+", "6", " ", "@", "@", "\n", "+", "c">>

MaxContextComments == 2

\* comments on a one-line span and on the wide span, two of them on one key
ContextPool ==
    { GoodComment(PathA, HunkOne), GoodComment(PathA, HunkOneLonger),
      GoodComment(PathB, HunkWide) }

\* the file at the base commit: as before, empty, or one with a long definition
ContextContents == FileContents \cup { Some(<<>>) } \cup { Some(f) : f \in LongFiles }

InitContext ==
    /\ pc = "scrape"
    /\ \E cs \in SeqsUpTo(ContextPool, MaxContextComments) : review_comments = WithIds(cs)
    /\ pr_author = Some(Alice)
    /\ max_needed \in 1..MaxNeeded
    /\ filtered = <<>>
    /\ singletons = {}
    /\ emit_i = 0
    /\ out = <<>>
    /\ old_file_lines = None
    /\ IdleParse /\ IdlePos /\ IdleLoc /\ IdleBlock /\ IdleGen /\ IdleDown /\ IdleWin /\ IdleCollect

NextContext ==
    \/ ScrapeFetchFails
    \/ ScrapeFilter
    \/ ScrapeGroup
    \/ EmitSkip
    \/ \E content \in ContextContents : EmitExample(content)
    \/ ScrapeReturn

SpecOversize == (InitBlock \/ InitContext) /\ [][NextBlock \/ NextContext]_vars

\* the last line of the block that starts at line a: the line before the
\* first later line that is not blank, not indented more than line a and no
\* decorator, or the last line of the file
BlockEndAt(lines, a, indent) ==
    IF \A j \in (a + 1)..Len(lines) : ~BreaksAt(lines[j], indent) THEN Len(lines)
    ELSE (CHOOSE b \in (a + 1)..Len(lines) :
            /\ BreaksAt(lines[b], indent)
            /\ \A j \in (a + 1)..(b - 1) : ~BreaksAt(lines[j], indent)) - 1

BlockEnd(lines, a) == BlockEndAt(lines, a, Indent(lines[a]))

BlockLen(lines, a) == BlockEnd(lines, a) - a + 1

\* the block that starts at line a and ends at line b: None when longer than
\* the limit, all its lines otherwise
WholeOrNone(lines, a, b) ==
    IF b - a + 1 > MAX_DEF_BLOCK_LINES THEN None ELSE Some(join(SubSeq(lines, a, b)))

WholeOrNoneFrom(lines, a) ==
    IF a = 0 THEN block ELSE WholeOrNone(lines, a, BlockEnd(lines, a))

\* extract_block_definition gives None for a block of more than the limit and
\* all its lines for any other block
WholeBlockOrNone ==
    pc = "extracted" /\ old_lines # <<>> /\ anchor_line # None =>
        block = WholeOrNoneFrom(old_lines, BlockStart(old_lines, Val(anchor_line)))

\* the anchor the caller computes for a span, 0 when there is no span
SpanAnchor(span) ==
    IF TruthyNo(span[1]) /\ TruthyNo(span[2])
    THEN (Val(span[1]) + Val(span[2])) \div 2 ELSE 0

AnchorOf(e) == SpanAnchor(SpanOf(e))

\* the block that starts at line a (0: no block) is longer than the limit
OversizedFrom(lines, a) == a # 0 /\ BlockLen(lines, a) > MAX_DEF_BLOCK_LINES

OversizedAt(lines, anchor) ==
    anchor # 0 /\ OversizedFrom(lines, BlockStart(lines, anchor))

\* the block around the example's anchor is longer than the limit
Oversized(e, lines) == OversizedAt(lines, AnchorOf(e))

\* the first MAX_DEF_BLOCK_LINES lines of the block that starts at line a
CutFrom(lines, a) == join(SubSeq(lines, a, a + MAX_DEF_BLOCK_LINES - 1))

\* the first MAX_DEF_BLOCK_LINES lines of the block around the example's anchor
CutAtLimit(e, lines) == CutFrom(lines, BlockStart(lines, AnchorOf(e)))

\* the window around a span
WindowOf(lines, span) == extract_window_snippet(lines, span[1], span[2], CONTEXT_RADIUS)

\* with an oversized block around the span's anchor, the context is the window
WindowWhenOversized(context, lines, span) ==
    OversizedAt(lines, SpanAnchor(span)) => context = WindowOf(lines, span)

\* with an oversized block around the span's anchor, the context is not the
\* block cut at the limit
NotCutWhenOversized(context, lines, span) ==
    OversizedAt(lines, SpanAnchor(span)) =>
        context # Some(CutFrom(lines, BlockStart(lines, SpanAnchor(span))))

\* an example has been emitted from a retrieved, non-empty file
EmittedFromFile ==
    pc \in {"emit", "scraped"} /\ out # <<>> /\ Retrieved(old_file_lines)

\* for an oversized block the last example's context is the window around
\* its old span
OversizedGivesWindow ==
    EmittedFromFile =>
        WindowWhenOversized(Emitted(out).context, Val(old_file_lines), SpanOf(Emitted(out)))

\* C20 as stated: extract_block_definition returns None for a block of more
\* than 300 lines and the whole block otherwise; the caller then uses the
\* window, and no emitted context is the block cut at the limit.
C20_NoContextCutAtLimit ==
    /\ WholeBlockOrNone
    /\ OversizedGivesWindow
    /\ EmittedFromFile =>
           NotCutWhenOversized(Emitted(out).context, Val(old_file_lines), SpanOf(Emitted(out)))

\* C20 amended: extract_block_definition returns None for a block of more
\* than 300 lines and the whole block otherwise; for an oversized block the
\* caller's context is the window around the old span, whatever that window
\* holds.
C20_OversizedGivesWindow == WholeBlockOrNone /\ OversizedGivesWindow

\* a block of one line more than the limit was discarded
C20_Witness ==
    /\ pc = "extracted"
    /\ anchor_line # None
    /\ Len(old_lines) > MAX_DEF_BLOCK_LINES
    /\ BlockLen(old_lines, 1) = MAX_DEF_BLOCK_LINES + 1
    /\ block = None

\* a block of just the limit was returned whole, before an unindented line
C20_WitnessAtLimit ==
    /\ pc = "extracted"
    /\ Len(old_lines) = MAX_DEF_BLOCK_LINES + 1
    /\ BlockLen(old_lines, 1) = MAX_DEF_BLOCK_LINES
    /\ block = Some(LinesText(1, MAX_DEF_BLOCK_LINES))

\* an example on the wide span has a context of as many lines as the limit
C20_WitnessWindow ==
    /\ pc = "scraped"
    /\ out # <<>>
    /\ Retrieved(old_file_lines)
    /\ Oversized(Emitted(out), Val(old_file_lines))
    /\ Emitted(out).diff_hunk = HunkWide
    /\ Emitted(out).context = Some(CutAtLimit(Emitted(out), Val(old_file_lines)))


----------------------------------------------------------------------------
(* extract_window_snippet on its own: files of numbered lines and old spans *)

MaxWindowLines == 4
MaxSpanLine == 11
Radii == {0, 2, CONTEXT_RADIUS}

\* a file of n lines, each of them different
NumberedFile(n) == [i \in 1..n |-> <<"l">> \o str(i)]

InitWindow ==
    /\ pc = "window"
    /\ old_lines \in { NumberedFile(n) : n \in 0..MaxWindowLines }
    /\ anchor_line = Idle /\ block = Idle
    /\ \/ span_start = None /\ span_end = None
       \/ \E a \in 1..MaxSpanLine, b \in 1..MaxSpanLine :
             a <= b /\ span_start = Some(a) /\ span_end = Some(b)
    /\ win_radius \in Radii
    /\ snippet = <<"pending">>
    /\ IdleParse /\ IdlePos /\ IdleLoc /\ IdleScrape /\ IdleGen /\ IdleDown /\ IdleCollect

ExtractWindowSnippet ==
    /\ pc = "window"
    /\ pc' = "windowed"
    /\ snippet' = extract_window_snippet(old_lines, span_start, span_end, win_radius)
    /\ UNCHANGED <<span_start, span_end, win_radius, parseVars, posVars, locVars, blockVars,
                   scrapeVars, genVars, downVars, collectVars>>

NextWindow == ExtractWindowSnippet

SpecWindow == InitWindow /\ [][NextWindow]_vars

\* the function has returned for a file of at least one line and a span
WindowedSpan ==
    pc = "windowed" /\ Len(old_lines) >= 1 /\ span_start # None /\ span_end # None

\* the span widened by the radius and cut at the file bounds
WidenedFrom == Max({1, Val(span_start) - win_radius})
WidenedTo == Min({Len(old_lines), Val(span_end) + win_radius})

\* the text of the lines a..b of the file, the empty text when there is none
LinesBetween(a, b) == IF a > b THEN <<>> ELSE join(SubSeq(old_lines, a, b))

\* C22: for a file of n >= 1 lines and an old span [start, end],
\* extract_window_snippet returns exactly the lines max(1, start - radius) ..
\* min(n, end + radius) and no line outside that range, also when the span
\* lies partly or wholly beyond the end of the file.
C22_WidenedSpanExactly ==
    WindowedSpan => snippet = Some(LinesBetween(WidenedFrom, WidenedTo))

\* what the code keeps: the widened span cut at the file bounds when it meets
\* the file, and the last line of the file when it starts after the end
C22_WidenedSpanOrLastLine ==
    WindowedSpan =>
        IF WidenedFrom <= Len(old_lines)
        THEN snippet = Some(LinesBetween(WidenedFrom, WidenedTo))
        ELSE snippet = Some(old_lines[Len(old_lines)])

\* a span cut at both file bounds
C22_Witness ==
    /\ WindowedSpan
    /\ Val(span_start) - win_radius < 1
    /\ Val(span_end) + win_radius > Len(old_lines)
    /\ snippet = Some(join(old_lines))

\* a span that starts in the file and ends beyond it
C22_WitnessPartlyBeyond ==
    /\ WindowedSpan
    /\ win_radius = 0
    /\ 1 < Val(span_start) /\ Val(span_start) < Len(old_lines)
    /\ Val(span_end) > Len(old_lines)
    /\ snippet = Some(LinesBetween(Val(span_start), Len(old_lines)))

\* a span beyond the end of the file by more than the radius: the last line
C22_WitnessBeyond ==
    /\ WindowedSpan
    /\ Val(span_start) - win_radius > Len(old_lines)
    /\ snippet = Some(old_lines[Len(old_lines)])


----------------------------------------------------------------------------
(* collect_data.main and collect_examples_from_repo_time_order *)

MaxRepos == 2
MaxPulls == 3

\* the examples a pull request can yield: none, or two
Yields == {0, 2}

\* a repository: the yields of its closed pull requests, in list order
PullLists == SeqsUpTo(Yields, MaxPulls)

\* the k-th example of pull request i (0-based, as enumerate counts) of repository r
Example(r, i, k) == [repo |-> r, pr |-> i, n |-> k]

\* scrape_examples_from_single_pr's result for a pull request that can yield
\* y examples: the emit loop stops at max_needed
scraped(r, i, y, needed) ==
    [k \in 1..(IF y < needed THEN y ELSE needed) |-> Example(r, i, k)]

\* collected[:max_examples_per_repo]
capped(examples, cap) == Prefix(examples, cap)

\* the repository main is at, and its pull requests
pull_list == repos_meta[repo_i + 1]

InitCollect ==
    /\ pc = "main"
    /\ \E rs \in SeqsUpTo(PullLists, MaxRepos) : rs # <<>> /\ repos_meta = rs
    /\ max_examples_per_repo \in {1, 3}
    /\ max_prs_to_scan \in {1, 2, 3}
    /\ probe_prs \in {1, 2}
    /\ probe_min \in {1, 2}
    /\ repo_i = 0
    /\ pr_idx = 0
    /\ collected = <<>>
    /\ scan_log = <<>>
    /\ repo_examples = None
    /\ cd_fout = <<>>
    /\ IdleParse /\ IdlePos /\ IdleLoc /\ IdleBlock /\ IdleScrape /\ IdleGen /\ IdleDown /\ IdleWin

collectParams == <<repos_meta, max_examples_per_repo, max_prs_to_scan, probe_prs, probe_min>>

otherVars == <<parseVars, posVars, locVars, blockVars, scrapeVars, genVars, downVars, winVars>>

\* lines 398-407: main calls the repository loop for the next repository
CollectRepo ==
    /\ pc = "main"
    /\ repo_i < Len(repos_meta)
    /\ pc' = "probe"
    /\ pr_idx' = 0
    /\ collected' = <<>>
    /\ scan_log' = <<>>
    /\ repo_examples' = None
    /\ UNCHANGED <<collectParams, repo_i, cd_fout, otherVars>>

\* lines 338-343: the repository cannot be reached, the loop returns []
RepoUnavailable ==
    /\ pc = "main"
    /\ repo_i < Len(repos_meta)
    /\ pc' = "write"
    /\ pr_idx' = 0
    /\ collected' = <<>>
    /\ scan_log' = <<>>
    /\ repo_examples' = Some(<<>>)
    /\ UNCHANGED <<collectParams, repo_i, cd_fout, otherVars>>

\* the scan of the pull request at pr_idx: lines 355-358 and 375-378
scan_pr ==
    /\ collected' = collected \o scraped(repo_i + 1, pr_idx, pull_list[pr_idx + 1],
                                         max_examples_per_repo - Len(collected))
    /\ scan_log' = Append(scan_log, pr_idx)
    /\ pr_idx' = pr_idx + 1

\* lines 350-353: the probe loop goes on
ProbeRuns ==
    /\ pr_idx < Len(pull_list)
    /\ pr_idx < probe_prs
    /\ Len(collected) < max_examples_per_repo

ProbeScan ==
    /\ pc = "probe"
    /\ ProbeRuns
    /\ scan_pr
    /\ UNCHANGED <<pc, collectParams, repo_i, repo_examples, cd_fout, otherVars>>

\* lines 362-367: the probe is over; too few examples end the repository
ProbeDone ==
    /\ pc = "probe"
    /\ ~ProbeRuns
    /\ IF Len(collected) < probe_min
       THEN /\ pc' = "write"
            /\ repo_examples' = Some(capped(collected, max_examples_per_repo))
            /\ UNCHANGED pr_idx
       ELSE /\ pc' = "deep"
            /\ pr_idx' = 0
            /\ UNCHANGED repo_examples
    /\ UNCHANGED <<collectParams, repo_i, collected, scan_log, cd_fout, otherVars>>

\* lines 370-372: the second enumeration passes over the probed pull requests
DeepSkip ==
    /\ pc = "deep"
    /\ pr_idx < Len(pull_list)
    /\ pr_idx < probe_prs
    /\ pr_idx' = pr_idx + 1
    /\ UNCHANGED <<pc, collectParams, repo_i, collected, scan_log, repo_examples, cd_fout,
                   otherVars>>

\* line 373: the limits of the deep scan
DeepLimit == pr_idx >= max_prs_to_scan \/ Len(collected) >= max_examples_per_repo

DeepScan ==
    /\ pc = "deep"
    /\ pr_idx < Len(pull_list)
    /\ pr_idx >= probe_prs
    /\ ~DeepLimit
    /\ scan_pr
    /\ UNCHANGED <<pc, collectParams, repo_i, repo_examples, cd_fout, otherVars>>

\* lines 373-383: the deep scan is over
DeepDone ==
    /\ pc = "deep"
    /\ pr_idx >= Len(pull_list) \/ (pr_idx >= probe_prs /\ DeepLimit)
    /\ pc' = "write"
    /\ repo_examples' = Some(capped(collected, max_examples_per_repo))
    /\ UNCHANGED <<collectParams, repo_i, pr_idx, collected, scan_log, cd_fout, otherVars>>

\* lines 409-411: main writes the repository's examples and flushes
WriteExamples ==
    /\ pc = "write"
    /\ cd_fout' = cd_fout \o Val(repo_examples)
    /\ repo_i' = repo_i + 1
    /\ pc' = "main"
    /\ UNCHANGED <<collectParams, pr_idx, collected, scan_log, repo_examples, otherVars>>

\* line 416: the list of repositories is exhausted
CollectDone ==
    /\ pc = "main"
    /\ repo_i = Len(repos_meta)
    /\ pc' = "collected"
    /\ UNCHANGED <<collectVars, otherVars>>

\* the run is interrupted: the with block of line 396 closes the file
CollectInterrupted ==
    /\ pc \in {"main", "probe", "deep", "write"}
    /\ pc' = "interrupted"
    /\ UNCHANGED <<collectVars, otherVars>>

NextCollect ==
    \/ CollectRepo
    \/ RepoUnavailable
    \/ ProbeScan
    \/ ProbeDone
    \/ DeepSkip
    \/ DeepScan
    \/ DeepDone
    \/ WriteExamples
    \/ CollectDone
    \/ CollectInterrupted

SpecCollect == InitCollect /\ [][NextCollect]_vars


\* either script, run and interrupted at any point
SpecInterrupt == (InitGen \/ InitCollect) /\ [][NextGen \/ NextCollect]_vars

\* the elements of a sequence
Range(seq) == { seq[i] : i \in 1..Len(seq) }

\* the review generator stopped by an interruption or an escaping exception:
\* its file holds one row for each hunk it has been through
GeneratorRowsSurvive ==
    pc \in {"gen_interrupted", "crashed"} => Len(fout) = h_idx /\ processed = h_idx

\* the collector stopped by an interruption: its file holds the example of
\* every comment it has been through
CollectorRecordsSurvive ==
    pc = "interrupted" => Range(collected) \subseteq Range(cd_fout)

\* C24: in the collector and in the review generator, wherever the run is
\* interrupted, the output file holds a record for every unit (comment, hunk)
\* whose processing has completed.
C24_CompletedUnitsSurvive == GeneratorRowsSurvive /\ CollectorRecordsSurvive

\* what the collector keeps: the examples of the repositories main has been
\* through are in the file; those of the repository being scanned are not
C24_CompletedRepositoriesSurvive ==
    /\ GeneratorRowsSurvive
    /\ pc = "interrupted" =>
          /\ \A e \in Range(collected) : e.repo <= repo_i => e \in Range(cd_fout)
          /\ \A e \in Range(cd_fout) : e.repo <= repo_i

\* the collector interrupted with the examples of a scanned pull request in
\* memory and not in the file
C24_WitnessLost ==
    /\ pc = "interrupted"
    /\ scan_log # <<>>
    /\ collected # <<>>
    /\ Range(collected) \cap Range(cd_fout) = {}

\* the generator interrupted after two hunks, with two rows in the file
C24_WitnessGenerator ==
    /\ pc = "gen_interrupted"
    /\ h_idx = 2
    /\ Len(fout) = 2


\* the repository loop is running or has returned
InRepoLoop == pc \in {"probe", "deep", "write"}

\* the examples found in the first probe_prs pull requests
ProbeYield == Cardinality({ e \in Range(collected) : e.pr < probe_prs })

\* the returned list has at most max_examples_per_repo examples
ReturnCapped == pc = "write" => Len(Val(repo_examples)) <= max_examples_per_repo

\* a pull request past the probe is scanned only after the probe found
\* probe_min examples
DeepOnlyAfterProbe ==
    InRepoLoop =>
        \A k \in 1..Len(scan_log) : scan_log[k] >= probe_prs => ProbeYield >= probe_min

\* no pull request at index >= max_prs_to_scan is scanned
ScanCapped == InRepoLoop => \A k \in 1..Len(scan_log) : scan_log[k] < max_prs_to_scan

\* no pull request is scanned twice
ScannedOnce ==
    InRepoLoop =>
        \A j \in 1..Len(scan_log), k \in 1..Len(scan_log) : scan_log[j] = scan_log[k] => j = k

C26_ScanLimitsPastProbe ==
    /\ ReturnCapped /\ DeepOnlyAfterProbe /\ ScannedOnce
    /\ InRepoLoop =>
          \A k \in 1..Len(scan_log) : scan_log[k] < max_prs_to_scan \/ scan_log[k] < probe_prs

\* the probe has scanned a pull request at an index >= max_prs_to_scan
C26_WitnessProbePastCap ==
    /\ pc = "write"
    /\ max_prs_to_scan < probe_prs
    /\ \E k \in 1..Len(scan_log) : scan_log[k] >= max_prs_to_scan

\* a deep scan that stopped at max_prs_to_scan with pull requests left
C26_WitnessDeepCapped ==
    /\ pc = "write"
    /\ probe_prs < max_prs_to_scan
    /\ max_prs_to_scan < Len(pull_list)
    /\ Len(scan_log) = max_prs_to_scan
    /\ Len(Val(repo_examples)) < max_examples_per_repo

\* a repository given up after the probe
C26_WitnessSkipped ==
    /\ pc = "write"
    /\ repo_examples # None
    /\ Len(collected) < probe_min
    /\ Len(scan_log) = probe_prs
    /\ probe_prs < Len(pull_list)

====
